---- MODULE Spec2Model ----
(***************************************************************************)
(* Syllabus-to-calendar extraction pipeline:                               *)
(*   PDFProcessor      (src/src/lib/pdf-parser.ts)                         *)
(*   SyllabusProcessor (src/unnamed/part_000, lines 201-448)               *)
(*   POST handler      (src/src/app/api/process-syllabus/route.ts)         *)
(*   GoogleCalendarService (src/unnamed/part_000, lines 1-199)             *)
(*   Home page, EventEditor, FileUpload (src/src/app/page.tsx,             *)
(*                      src/src/components)                                *)
(*                                                                         *)
(* A JavaScript string is a sequence of one-character strings.  A          *)
(* character outside ASCII is written by its code point, e.g. "U+2022".    *)
(***************************************************************************)
EXTENDS Integers, Sequences, FiniteSets, TLC

VARIABLES
    text,          \* SpecClean: the input of cleanText
    cleaned,       \* SpecClean: cleanText(text)
    recleaned,     \* SpecClean: cleanText(cleaned)
    cstage,        \* SpecClean: "idle" | "in" | "once" | "twice"
    parsedResult,  \* SpecValidate: the argument of validateAndCleanResult
    validated,     \* SpecValidate: what validateAndCleanResult returned or threw
    body,          \* SpecValidate: the text of the HTTP response
    received,      \* SpecValidate: what the client parsed from body
    vstage,        \* SpecValidate: "idle" | "parsed" | "validated" | "threw"
                   \*               | "sent" | "received"
    now,           \* the clock that Date.now() reads
    env,           \* process.env.OPENAI_API_KEY
    pc,            \* Spec: pc[r] is where the handler of request r stands
    upload,        \* Spec: upload[r] is the form data of request r
    extractedText, \* Spec: what processForAI returned for request r
    calls,         \* Spec: the chat completions request r has asked for
    replies,       \* Spec: what the model API answered to those, in order
    decodes,       \* Spec: the number of calls of extractText for request r
    caught,        \* Spec: the errors caught in extractEventsWithFallback
    response,      \* Spec: the HTTP response to request r
    calendar,      \* SpecCalendar: a run of GoogleCalendarService.createEvents
    page,          \* SpecPage: the state of the Home component
    editor,        \* SpecEditor: the state of the EventEditor component
    fileUpload     \* SpecUpload: the state of the FileUpload component

cleanVars == <<text, cleaned, recleaned, cstage>>
validateVars == <<parsedResult, validated, body, received, vstage>>
requestVars == <<pc, upload, extractedText, calls, replies, decodes, caught, response>>
uiVars == <<calendar, page, editor, fileUpload>>
vars == <<cleanVars, validateVars, now, env, requestVars, uiVars>>

(***************************************************************************)
(* Bounds of the model                                                     *)
(***************************************************************************)
MaxLen == 4          \* longest input string of SpecClean
MaxEvents == 2       \* most candidates in a reply drawn from Candidates
MaxExample == 3      \* most candidates in a reply drawn from ExampleCandidates
MaxRnd == 2          \* number of distinct values Math.random() can give

(***************************************************************************)
(* Characters and strings                                                  *)
(***************************************************************************)
\* the characters the regular-expression class \s and String.trim() treat
\* as white space (the ones the model uses)
WhiteSpace == {" ", "\n", "\t", "\f", "\r"}

\* [.,;:!?]                               pdf-parser.ts:45,47
Punctuation == {".", ",", ";", ":", "!", "?"}

\* [\f\r]                                 pdf-parser.ts:38
PageBreaks == {"\f", "\r"}

\* the bullet class of pdf-parser.ts:40: U+2022 U+00B7 U+2023 U+2043
Bullets == {"U+2022", "U+00B7", "U+2023", "U+2043"}

\* the classes of pdf-parser.ts:42 and :43 hold the ASCII quotes only
DoubleQuoteClass == {"\""}
SingleQuoteClass == {"'"}

Min(a, b) == IF a < b THEN a ELSE b

\* first index >= i of s that holds no white space (Len(s)+1 if none)
SkipSpaceFrom(s, i) ==
    CHOOSE j \in i..(Len(s) + 1) :
        /\ j > Len(s) \/ s[j] \notin WhiteSpace
        /\ \A k \in i..(j - 1) : s[k] \in WhiteSpace

\* last index <= i of s that holds no white space (0 if none)
LastNonSpace(s, i) ==
    CHOOSE j \in 0..i :
        /\ j = 0 \/ s[j] \notin WhiteSpace
        /\ \A k \in (j + 1)..i : s[k] \in WhiteSpace

\* String.prototype.trim
Trim(s) ==
    LET a == SkipSpaceFrom(s, 1)
        b == LastNonSpace(s, Len(s))
    IN  IF a > b THEN <<>> ELSE SubSeq(s, a, b)

RECURSIVE ConcatRange(_, _, _)
\* pieces[lo] \o ... \o pieces[hi]
ConcatRange(pieces, lo, hi) ==
    IF lo > hi THEN <<>>
    ELSE IF lo = hi THEN pieces[lo]
    ELSE LET mid == (lo + hi) \div 2
         IN  ConcatRange(pieces, lo, mid) \o ConcatRange(pieces, mid + 1, hi)

\* a global replace, given what each character of the input turns into
ConcatAll(pieces) == ConcatRange(pieces, 1, Len(pieces))

\* s.replace(/[class]/g, by): every character of the class replaced
ReplaceClass(s, class, by) ==
    [i \in 1..Len(s) |-> IF s[i] \in class THEN by ELSE s[i]]

\* .replace(/\s+/g, ' ')                  pdf-parser.ts:36
\* a run of white space becomes the one space that its first character
\* turns into
CollapseWhitespace(s) ==
    ConcatAll([i \in 1..Len(s) |->
                 IF s[i] \notin WhiteSpace THEN <<s[i]>>
                 ELSE IF i > 1 /\ s[i - 1] \in WhiteSpace THEN <<>> ELSE <<" ">>])

\* .replace(/\s+([.,;:!?])/g, '$1')       pdf-parser.ts:45
\* white space goes when the run it is in ends at a punctuation mark
TightenBeforePunctuation(s) ==
    ConcatAll([i \in 1..Len(s) |->
                 LET j == SkipSpaceFrom(s, i)
                 IN  IF s[i] \in WhiteSpace /\ j <= Len(s) /\ s[j] \in Punctuation
                     THEN <<>> ELSE <<s[i]>>])

\* the replacement '$1 $2' of pdf-parser.ts:47 with two spaces
SpacedPairTwoSpaces(p, c) == <<p, " ", " ", c>>

\* the replacement '$1 $2' of pdf-parser.ts:47
SpacedPair(p, c) == <<p, " ", c>>

\* the first index of the run of punctuation marks that index i is in
PunctuationRunStart(s, i) ==
    CHOOSE p \in 1..i :
        /\ \A k \in p..i : s[k] \in Punctuation
        /\ p = 1 \/ s[p - 1] \notin Punctuation

\* index i of s is where a match of /([.,;:!?])([^\s])/g starts: matches
\* do not overlap, so in a run of punctuation marks every second one is
\* taken as $2 by the match before it and starts no match itself
MatchStartsAt(s, i) ==
    /\ i >= 1
    /\ i < Len(s)
    /\ s[i] \in Punctuation
    /\ s[i + 1] \notin WhiteSpace
    /\ (i - PunctuationRunStart(s, i)) % 2 = 0

\* .replace(/([.,;:!?])([^\s])/g, '$1 $2')   pdf-parser.ts:47
SpaceAfterPunctuation(s) ==
    ConcatAll([i \in 1..Len(s) |->
                 IF MatchStartsAt(s, i) THEN SpacedPair(s[i], s[i + 1])
                 ELSE IF MatchStartsAt(s, i - 1) THEN <<>>
                 ELSE <<s[i]>>])

\* PDFProcessor.cleanText                 pdf-parser.ts:33-50
cleanText(s) ==
    LET s1 == CollapseWhitespace(s)
        s2 == ReplaceClass(s1, PageBreaks, " ")
        s3 == ReplaceClass(s2, Bullets, "-")
        s4 == ReplaceClass(s3, DoubleQuoteClass, "\"")
        s5 == ReplaceClass(s4, SingleQuoteClass, "'")
        s6 == TightenBeforePunctuation(s5)
        s7 == SpaceAfterPunctuation(s6)
    IN  Trim(s7)

(***************************************************************************)
(* JavaScript values.  A value is [k |-> kind, v |-> payload]; the payload *)
(* is always a sequence: <<>> for undefined, null and NaN, <<b>> for a     *)
(* boolean, <<n>> for a number (a natural), the characters of a string,    *)
(* the elements of an array, the <<key, value>> pairs of an object in      *)
(* insertion order.                                                        *)
(***************************************************************************)
Undefined == [k |-> "undefined", v |-> <<>>]
Null      == [k |-> "null", v |-> <<>>]
NaN       == [k |-> "NaN", v |-> <<>>]
Bool(b)   == [k |-> "boolean", v |-> <<b>>]
Num(n)    == [k |-> "number", v |-> <<n>>]
Str(s)    == [k |-> "string", v |-> s]
Arr(a)    == [k |-> "array", v |-> a]
Obj(ps)   == [k |-> "object", v |-> ps]

\* typeof x
TypeOf(x) ==
    CASE x.k \in {"null", "array", "object"} -> "object"
      [] x.k = "NaN" -> "number"
      [] OTHER -> x.k

\* the truthiness of x, as in `x ? a : b`, `!x`, `x || y`, `x && y`
Truthy(x) ==
    CASE x.k \in {"undefined", "null", "NaN"} -> FALSE
      [] x.k = "boolean" -> x.v[1]
      [] x.k = "number" -> x.v[1] # 0
      [] x.k = "string" -> x.v # <<>>
      [] OTHER -> TRUE

RECURSIVE LastIndexOfKey(_, _, _)
LastIndexOfKey(ps, key, i) ==
    IF i = 0 THEN 0
    ELSE IF ps[i][1] = key THEN i ELSE LastIndexOfKey(ps, key, i - 1)

\* x.key (a property that JSON data can carry; undefined for any other x)
Get(x, key) ==
    IF x.k # "object" THEN Undefined
    ELSE LET i == LastIndexOfKey(x.v, key, Len(x.v))
         IN  IF i = 0 THEN Undefined ELSE x.v[i][2]

Digits == <<"0", "1", "2", "3", "4", "5", "6", "7", "8", "9">>

IsDigit(c) == \E d \in 1..10 : Digits[d] = c

DigitVal(c) == (CHOOSE d \in 1..10 : Digits[d] = c) - 1

RECURSIVE NatToChars(_)
\* the decimal digits of a natural number
NatToChars(n) ==
    IF n < 10 THEN <<Digits[n + 1]>>
    ELSE Append(NatToChars(n \div 10), Digits[(n % 10) + 1])

RECURSIVE CharsToNat(_)
\* the natural number a non-empty sequence of digits denotes
CharsToNat(s) ==
    IF Len(s) = 1 THEN DigitVal(s[1])
    ELSE 10 * CharsToNat(SubSeq(s, 1, Len(s) - 1)) + DigitVal(s[Len(s)])

AllDigits(s) == \A i \in 1..Len(s) : IsDigit(s[i])

RECURSIVE JoinStrings(_, _)
JoinStrings(parts, sep) ==
    IF parts = <<>> THEN <<>>
    ELSE IF Len(parts) = 1 THEN parts[1]
         ELSE parts[1] \o sep \o JoinStrings(Tail(parts), sep)

RECURSIVE StringOf(_)
\* String(x)
StringOf(x) ==
    CASE x.k = "undefined" -> <<"u", "n", "d", "e", "f", "i", "n", "e", "d">>
      [] x.k = "null" -> <<"n", "u", "l", "l">>
      [] x.k = "NaN" -> <<"N", "a", "N">>
      [] x.k = "boolean" ->
            IF x.v[1] THEN <<"t", "r", "u", "e">> ELSE <<"f", "a", "l", "s", "e">>
      [] x.k = "number" -> NatToChars(x.v[1])
      [] x.k = "string" -> x.v
      [] x.k = "array" ->
            JoinStrings([i \in 1..Len(x.v) |->
                            IF x.v[i].k \in {"undefined", "null"} THEN <<>>
                            ELSE StringOf(x.v[i])], <<",">>)
      [] OTHER -> <<"[", "o", "b", "j", "e", "c", "t", " ",
                    "O", "b", "j", "e", "c", "t", "]">>

\* Number(s) for a string s
StringToNumber(s) ==
    LET t == Trim(s)
    IN  IF t = <<>> THEN Num(0)
        ELSE IF AllDigits(t) THEN Num(CharsToNat(t)) ELSE NaN

\* Number(x)
NumberOf(x) ==
    CASE x.k \in {"undefined", "NaN", "object"} -> NaN
      [] x.k = "null" -> Num(0)
      [] x.k = "boolean" -> IF x.v[1] THEN Num(1) ELSE Num(0)
      [] x.k = "number" -> x
      [] x.k = "string" -> StringToNumber(x.v)
      [] OTHER -> StringToNumber(StringOf(x))

\* String.prototype.toLowerCase, on the letters the model uses
LowerChar(c) ==
    CASE c = "A" -> "a" [] c = "E" -> "e" [] c = "X" -> "x" [] c = "M" -> "m"
      [] c = "H" -> "h" [] c = "I" -> "i" [] c = "G" -> "g"
      [] OTHER -> c

ToLowerCase(s) == [i \in 1..Len(s) |-> LowerChar(s[i])]

(***************************************************************************)
(* JSON text <-> values: JSON.stringify (NextResponse.json, route.ts:83)   *)
(* and JSON.parse (part_000:297, :439; Response.json of the client).       *)
(* Numbers are naturals: the texts of the model hold no sign, fraction or  *)
(* exponent, and no \u escape.                                             *)
(***************************************************************************)
\* the white space of the JSON grammar (no form feed)
JSONWhiteSpace == {" ", "\n", "\r", "\t"}

\* characters a JSON string cannot hold unescaped
ControlChars == {"\n", "\r", "\t", "\f"}

\* the character after the backslash for an escaped character
EscapeLetter(c) ==
    CASE c = "\n" -> "n" [] c = "\r" -> "r" [] c = "\t" -> "t" [] c = "\f" -> "f"
      [] OTHER -> c

\* the characters that must be escaped inside a quoted string
MustEscape == ControlChars \cup {"\"", "\\"}

RECURSIVE QuoteFrom(_, _)
QuoteFrom(s, i) ==
    IF i > Len(s) THEN <<>>
    ELSE (IF s[i] \in MustEscape THEN <<"\\", EscapeLetter(s[i])>> ELSE <<s[i]>>)
         \o QuoteFrom(s, i + 1)

\* the quoted form of a string
Quote(s) == <<"\"">> \o QuoteFrom(s, 1) \o <<"\"">>

RECURSIVE JSONstringify(_)
\* JSON.stringify(x) for x # undefined: a property whose value is
\* undefined is left out, an undefined array element and NaN become null
JSONstringify(x) ==
    CASE x.k \in {"null", "NaN", "undefined"} -> <<"n", "u", "l", "l">>
      [] x.k \in {"boolean", "number"} -> StringOf(x)
      [] x.k = "string" -> Quote(x.v)
      [] x.k = "array" ->
            <<"[">> \o JoinStrings([i \in 1..Len(x.v) |-> JSONstringify(x.v[i])],
                                   <<",">>) \o <<"]">>
      [] OTHER ->
            LET kept == SelectSeq(x.v, LAMBDA p : p[2].k # "undefined")
            IN  <<"{">> \o JoinStrings([i \in 1..Len(kept) |->
                                          Quote(kept[i][1]) \o <<":">>
                                            \o JSONstringify(kept[i][2])],
                                       <<",">>) \o <<"}">>

RECURSIVE SkipJSONSpace(_, _)
SkipJSONSpace(s, i) ==
    IF i <= Len(s) /\ s[i] \in JSONWhiteSpace THEN SkipJSONSpace(s, i + 1) ELSE i

\* a parse step yields [ok, val, next]: the value read and the index after it
ParseFail == [ok |-> FALSE, val |-> Undefined, next |-> 0]
ParseOk(val, next) == [ok |-> TRUE, val |-> val, next |-> next]

\* the character an escape letter stands for ("" if none)
Unescape(c) ==
    CASE c = "n" -> "\n" [] c = "r" -> "\r" [] c = "t" -> "\t" [] c = "f" -> "\f"
      [] c \in {"\"", "\\", "/"} -> c
      [] OTHER -> ""

RECURSIVE ParseStringAt(_, _, _)
\* the string whose opening quote precedes index i
ParseStringAt(s, i, acc) ==
    IF i > Len(s) THEN ParseFail
    ELSE IF s[i] = "\"" THEN ParseOk(Str(acc), i + 1)
    ELSE IF s[i] \in ControlChars THEN ParseFail
    ELSE IF s[i] = "\\"
         THEN IF i + 1 > Len(s) \/ Unescape(s[i + 1]) = "" THEN ParseFail
              ELSE ParseStringAt(s, i + 2, Append(acc, Unescape(s[i + 1])))
         ELSE ParseStringAt(s, i + 1, Append(acc, s[i]))

RECURSIVE DigitsEnd(_, _)
DigitsEnd(s, i) ==
    IF i <= Len(s) /\ IsDigit(s[i]) THEN DigitsEnd(s, i + 1) ELSE i

ParseNumberAt(s, i) ==
    LET j == DigitsEnd(s, i)
    IN  IF s[i] = "0" /\ j > i + 1 THEN ParseFail
        ELSE ParseOk(Num(CharsToNat(SubSeq(s, i, j - 1))), j)

ParseLiteralAt(s, i, word, val) ==
    IF i + Len(word) - 1 <= Len(s) /\ SubSeq(s, i, i + Len(word) - 1) = word
    THEN ParseOk(val, i + Len(word))
    ELSE ParseFail

RECURSIVE ParseValueAt(_, _)
RECURSIVE ParseElementsAt(_, _, _)
RECURSIVE ParseMembersAt(_, _, _)

\* the elements of an array, the next one starting at i
ParseElementsAt(s, i, acc) ==
    LET e == ParseValueAt(s, i)
        j == SkipJSONSpace(s, e.next)
    IN  IF ~e.ok \/ j > Len(s) THEN ParseFail
        ELSE IF s[j] = "]" THEN ParseOk(Arr(Append(acc, e.val)), j + 1)
        ELSE IF s[j] = "," THEN ParseElementsAt(s, j + 1, Append(acc, e.val))
        ELSE ParseFail

\* the members of an object, the next key starting at i
ParseMembersAt(s, i, acc) ==
    LET i1 == SkipJSONSpace(s, i)
        key == IF i1 <= Len(s) /\ s[i1] = "\"" THEN ParseStringAt(s, i1 + 1, <<>>)
               ELSE ParseFail
        i2 == SkipJSONSpace(s, key.next)
        val == IF key.ok /\ i2 <= Len(s) /\ s[i2] = ":" THEN ParseValueAt(s, i2 + 1)
               ELSE ParseFail
        j == SkipJSONSpace(s, val.next)
        acc2 == Append(acc, <<key.val.v, val.val>>)
    IN  IF ~val.ok \/ j > Len(s) THEN ParseFail
        ELSE IF s[j] = "}" THEN ParseOk(Obj(acc2), j + 1)
        ELSE IF s[j] = "," THEN ParseMembersAt(s, j + 1, acc2)
        ELSE ParseFail

ParseValueAt(s, i0) ==
    LET i == SkipJSONSpace(s, i0)
    IN  IF i > Len(s) THEN ParseFail
        ELSE IF s[i] = "\"" THEN ParseStringAt(s, i + 1, <<>>)
        ELSE IF IsDigit(s[i]) THEN ParseNumberAt(s, i)
        ELSE IF s[i] = "t" THEN ParseLiteralAt(s, i, <<"t", "r", "u", "e">>, Bool(TRUE))
        ELSE IF s[i] = "f"
             THEN ParseLiteralAt(s, i, <<"f", "a", "l", "s", "e">>, Bool(FALSE))
        ELSE IF s[i] = "n" THEN ParseLiteralAt(s, i, <<"n", "u", "l", "l">>, Null)
        ELSE IF s[i] = "["
             THEN LET j == SkipJSONSpace(s, i + 1)
                  IN  IF j <= Len(s) /\ s[j] = "]" THEN ParseOk(Arr(<<>>), j + 1)
                      ELSE ParseElementsAt(s, i + 1, <<>>)
        ELSE IF s[i] = "{"
             THEN LET j == SkipJSONSpace(s, i + 1)
                  IN  IF j <= Len(s) /\ s[j] = "}" THEN ParseOk(Obj(<<>>), j + 1)
                      ELSE ParseMembersAt(s, i + 1, <<>>)
        ELSE ParseFail

\* JSON.parse(s): [ok |-> FALSE] stands for the SyntaxError it throws
JSONparse(s) ==
    LET r == ParseValueAt(s, 1)
    IN  IF r.ok /\ SkipJSONSpace(s, r.next) > Len(s)
        THEN [ok |-> TRUE, val |-> r.val]
        ELSE [ok |-> FALSE, val |-> Undefined]

(***************************************************************************)
(* SyllabusProcessor: the validator (part_000:315-403).  A literal of the  *)
(* code (a property name, an error message) is written as one element of   *)
(* its string; what the model reply supplies is written character by       *)
(* character.                                                              *)
(***************************************************************************)
K_events      == <<"events">>
K_id          == <<"id">>
K_title       == <<"title">>
K_description == <<"description">>
K_date        == <<"date">>
K_time        == <<"time">>
K_type        == <<"type">>
K_priority    == <<"priority">>
K_location    == <<"location">>
K_courseName  == <<"courseName">>
K_instructor  == <<"instructor">>
K_semester    == <<"semester">>
K_year        == <<"year">>

\* ['assignment', 'exam', 'reading', 'lecture', 'project', 'quiz', 'other']
validTypes ==
    { <<"a", "s", "s", "i", "g", "n", "m", "e", "n", "t">>,
      <<"e", "x", "a", "m">>,
      <<"r", "e", "a", "d", "i", "n", "g">>,
      <<"l", "e", "c", "t", "u", "r", "e">>,
      <<"p", "r", "o", "j", "e", "c", "t">>,
      <<"q", "u", "i", "z">>,
      <<"o", "t", "h", "e", "r">> }

\* ['high', 'medium', 'low']
validPriorities ==
    { <<"h", "i", "g", "h">>, <<"m", "e", "d", "i", "u", "m">>, <<"l", "o", "w">> }

\* /^\d{4}-\d{2}-\d{2}$/.test(dateStr)
MatchesDateRegex(d) ==
    /\ Len(d) = 10
    /\ \A i \in {1, 2, 3, 4, 6, 7, 9, 10} : IsDigit(d[i])
    /\ d[5] = "-"
    /\ d[8] = "-"

\* !isNaN(new Date(dateStr).getTime()) for a string of the form above, as
\* V8 (the Node.js runtime of the route) parses it: the month must be
\* 1..12 and the day 1..31; a day past the end of its month rolls over
\* into the next month instead of giving an invalid date
DateParses(d) ==
    LET month == CharsToNat(SubSeq(d, 6, 7))
        day == CharsToNat(SubSeq(d, 9, 10))
    IN  month \in 1..12 /\ day \in 1..31

\* SyllabusProcessor.isValidDateFormat
isValidDateFormat(dateStr) ==
    IF ~MatchesDateRegex(dateStr) THEN FALSE ELSE DateParses(dateStr)

\* SyllabusProcessor.isValidEvent
isValidEvent(event) ==
    /\ Truthy(event)
    /\ TypeOf(Get(event, K_title)) = "string"
    /\ Len(Trim(Get(event, K_title).v)) > 0
    /\ TypeOf(Get(event, K_date)) = "string"
    /\ isValidDateFormat(Get(event, K_date).v)

\* SyllabusProcessor.validateDate: [ok |-> FALSE] stands for the throw
validateDate(dateStr) ==
    IF ~isValidDateFormat(dateStr)
    THEN [ok |-> FALSE, val |-> Undefined,
          error |-> <<"Invalid date format: ">> \o dateStr]
    ELSE [ok |-> TRUE, val |-> Str(dateStr), error |-> <<>>]

\* validateEventType without the test against validTypes
validateEventTypeUnchecked(type) == Str(ToLowerCase(StringOf(type)))

\* SyllabusProcessor.validateEventType
validateEventType(type) ==
    LET lowerType == ToLowerCase(StringOf(type))
    IN  IF lowerType \in validTypes THEN Str(lowerType)
        ELSE Str(<<"o", "t", "h", "e", "r">>)

\* SyllabusProcessor.validatePriority
validatePriority(priority) ==
    LET lowerPriority == ToLowerCase(StringOf(priority))
    IN  IF lowerPriority \in validPriorities THEN Str(lowerPriority)
        ELSE Str(<<"m", "e", "d", "i", "u", "m">>)

\* SyllabusProcessor.generateEventId: `event-${Date.now()}-${random}`,
\* the random part written as the digits of the number drawn
generateEventId(time, random) ==
    Str(<<"event-">> \o NatToChars(time) \o <<"-">> \o NatToChars(random))

\* x ? String(x).trim() : undefined
TrimmedOrUndefined(x) ==
    IF Truthy(x) THEN Str(Trim(StringOf(x))) ELSE Undefined

\* the object pushed for a valid candidate, part_000:325-334
NewEvent(event, id, date) ==
    Obj(<< <<K_id, id>>,
           <<K_title, Str(Trim(StringOf(Get(event, K_title))))>>,
           <<K_description,
             Str(Trim(StringOf(IF Truthy(Get(event, K_description))
                               THEN Get(event, K_description)
                               ELSE Str(<<>>))))>>,
           <<K_date, date>>,
           <<K_time, TrimmedOrUndefined(Get(event, K_time))>>,
           <<K_type, validateEventType(Get(event, K_type))>>,
           <<K_priority, validatePriority(Get(event, K_priority))>>,
           <<K_location, TrimmedOrUndefined(Get(event, K_location))>> >>)

\* the loop rejecting the whole batch at the first invalid candidate
CleanEventsRejectingBatch(cands, i, ids) ==
    IF \E j \in i..Len(cands) : ~isValidEvent(cands[j])
    THEN [ok |-> FALSE, events |-> <<>>, error |-> <<"Invalid event">>]
    ELSE [ok |-> TRUE, error |-> <<>>,
          events |-> [j \in 1..(Len(cands) - i + 1) |->
                        NewEvent(cands[i + j - 1], ids[j],
                                 Get(cands[i + j - 1], K_date))]]

\* the loop putting each new event in front of the ones before it
CleanEventsNewestFirst(cands, i, ids) ==
    LET kept == SelectSeq(SubSeq(cands, i, Len(cands)), isValidEvent)
    IN  [ok |-> TRUE, error |-> <<>>,
         events |-> [j \in 1..Len(kept) |->
                       NewEvent(kept[Len(kept) + 1 - j], ids[j],
                                Get(kept[Len(kept) + 1 - j], K_date))]]

RECURSIVE CleanEventsFrom(_, _, _)
\* the loop of part_000:323-336 from candidate i on; ids are the results
\* of the calls of generateEventId still to come, in order
CleanEventsFrom(cands, i, ids) ==
    IF i > Len(cands) THEN [ok |-> TRUE, events |-> <<>>, error |-> <<>>]
    ELSE IF isValidEvent(cands[i])
         THEN LET date == validateDate(Get(cands[i], K_date).v)
                  rest == CleanEventsFrom(cands, i + 1, Tail(ids))
              IN  IF ~date.ok
                  THEN [ok |-> FALSE, events |-> <<>>, error |-> date.error]
                  ELSE IF ~rest.ok THEN rest
                  ELSE [ok |-> TRUE, error |-> <<>>,
                        events |-> <<NewEvent(cands[i], Head(ids), date.val)>>
                                     \o rest.events]
         ELSE CleanEventsFrom(cands, i + 1, ids)

\* the number of calls of generateEventId that validating result makes
NumIdsNeeded(result) ==
    IF Get(result, K_events).k # "array" THEN 0
    ELSE Len(SelectSeq(Get(result, K_events).v, isValidEvent))

\* the validator refusing a reply whose events field is no array
validateAndCleanResultEventsRequired(result, ids) ==
    IF ~Truthy(result) \/ TypeOf(result) # "object"
    THEN [ok |-> FALSE, val |-> Undefined, error |-> <<"Invalid result format">>]
    ELSE LET cleanedEvents ==
                 IF Get(result, K_events).k = "array"
                 THEN CleanEventsFrom(Get(result, K_events).v, 1, ids)
                 ELSE [ok |-> FALSE, events |-> <<>>,
                       error |-> <<"Invalid result format">>]
         IN  IF ~cleanedEvents.ok
             THEN [ok |-> FALSE, val |-> Undefined, error |-> cleanedEvents.error]
             ELSE [ok |-> TRUE, error |-> <<>>,
                   val |-> Obj(<< <<K_events, Arr(cleanedEvents.events)>>,
                                  <<K_courseName,
                                    TrimmedOrUndefined(Get(result, K_courseName))>>,
                                  <<K_instructor,
                                    TrimmedOrUndefined(Get(result, K_instructor))>>,
                                  <<K_semester,
                                    TrimmedOrUndefined(Get(result, K_semester))>>,
                                  <<K_year,
                                    IF Truthy(Get(result, K_year))
                                    THEN NumberOf(Get(result, K_year))
                                    ELSE Undefined>> >>)]

\* SyllabusProcessor.validateAndCleanResult: [ok |-> FALSE] stands for a
\* throw with the message error
validateAndCleanResult(result, ids) ==
    IF ~Truthy(result) \/ TypeOf(result) # "object"
    THEN [ok |-> FALSE, val |-> Undefined, error |-> <<"Invalid result format">>]
    ELSE LET cleanedEvents ==
                 IF Get(result, K_events).k = "array"
                 THEN CleanEventsFrom(Get(result, K_events).v, 1, ids)
                 ELSE [ok |-> TRUE, events |-> <<>>, error |-> <<>>]
         IN  IF ~cleanedEvents.ok
             THEN [ok |-> FALSE, val |-> Undefined, error |-> cleanedEvents.error]
             ELSE [ok |-> TRUE, error |-> <<>>,
                   val |-> Obj(<< <<K_events, Arr(cleanedEvents.events)>>,
                                  <<K_courseName,
                                    TrimmedOrUndefined(Get(result, K_courseName))>>,
                                  <<K_instructor,
                                    TrimmedOrUndefined(Get(result, K_instructor))>>,
                                  <<K_semester,
                                    TrimmedOrUndefined(Get(result, K_semester))>>,
                                  <<K_year,
                                    IF Truthy(Get(result, K_year))
                                    THEN NumberOf(Get(result, K_year))
                                    ELSE Undefined>> >>)]

(***************************************************************************)
(* SpecClean: cleanText applied to every string of at most MaxLen          *)
(* characters over CleanAlphabet, and applied again to its own output.     *)
(***************************************************************************)
CleanAlphabet == {" ", "\n", "\f", ".", ",", "a", "U+2022", "U+201C"}

RECURSIVE StringsUpTo(_, _)
StringsUpTo(alphabet, n) ==
    IF n = 0 THEN {<<>>}
    ELSE LET shorter == StringsUpTo(alphabet, n - 1)
         IN  shorter \cup {Append(s, c) : s \in shorter, c \in alphabet}

\* the requests the handler can be serving
Reqs == {"r1", "r2"}

NoUpload == [file |-> Undefined]
NoResponse == [status |-> 0, body |-> Undefined]
NothingCaught == [primary |-> <<>>, fallback |-> <<>>]

RequestsIdle ==
    /\ env = Undefined
    /\ pc = [r \in Reqs |-> "none"]
    /\ upload = [r \in Reqs |-> NoUpload]
    /\ extractedText = [r \in Reqs |-> <<>>]
    /\ calls = [r \in Reqs |-> <<>>]
    /\ replies = [r \in Reqs |-> <<>>]
    /\ decodes = [r \in Reqs |-> 0]
    /\ caught = [r \in Reqs |-> NothingCaught]
    /\ response = [r \in Reqs |-> NoResponse]

\* no component of the user interface is mounted
CalendarIdle == calendar = [pc |-> "none"]
PageIdle == page = [pc |-> "none"]
EditorIdle == editor = [pc |-> "none"]
UploadIdle == fileUpload = [pc |-> "none"]
UiIdle == CalendarIdle /\ PageIdle /\ EditorIdle /\ UploadIdle

CleanIdle ==
    /\ text = <<>>
    /\ cleaned = <<>>
    /\ recleaned = <<>>
    /\ cstage = "idle"

ValidateIdle ==
    /\ parsedResult = Undefined
    /\ validated = Undefined
    /\ body = <<>>
    /\ received = Undefined
    /\ vstage = "idle"

InitClean ==
    /\ text \in StringsUpTo(CleanAlphabet, MaxLen)
    /\ cleaned = <<>>
    /\ recleaned = <<>>
    /\ cstage = "in"
    /\ ValidateIdle
    /\ RequestsIdle
    /\ now = 1
    /\ UiIdle

CleanOnce ==
    /\ cstage = "in"
    /\ cleaned' = cleanText(text)
    /\ cstage' = "once"
    /\ UNCHANGED <<text, recleaned, validateVars, now, env, uiVars, requestVars>>

CleanTwice ==
    /\ cstage = "once"
    /\ recleaned' = cleanText(cleaned)
    /\ cstage' = "twice"
    /\ UNCHANGED <<text, cleaned, validateVars, now, env, uiVars, requestVars>>

NextClean == CleanOnce \/ CleanTwice

SpecClean == InitClean /\ [][NextClean]_vars

\* C9: the normalizer is idempotent: cleanText(cleanText(s)) = cleanText(s)
\* for every input string s.
C9_CleanIdempotent == cstage = "twice" => recleaned = cleaned

\* a run in which the second pass had white space, punctuation and a
\* bullet to work on, and the first pass changed the input
C9_Witness ==
    /\ cstage = "twice"
    /\ cleaned # text
    /\ \E i \in 1..Len(text) : text[i] \in Punctuation
    /\ \E i \in 1..Len(text) : text[i] \in Bullets
    /\ \E i \in 1..Len(cleaned) : cleaned[i] = " "

(***************************************************************************)
(* SpecValidate: validateAndCleanResult applied to parsed replies, its     *)
(* result sent as the HTTP response (route.ts:82-87) and parsed by the     *)
(* client (FileUpload.tsx:84).                                             *)
(***************************************************************************)
D_Sep15    == <<"2", "0", "2", "4", "-", "0", "9", "-", "1", "5">>
D_Sep16    == <<"2", "0", "2", "4", "-", "0", "9", "-", "1", "6">>
D_Feb30    == <<"2", "0", "2", "4", "-", "0", "2", "-", "3", "0">>
D_Month13  == <<"2", "0", "2", "4", "-", "1", "3", "-", "0", "1">>
D_NotADate == <<"n", "o", "t", "-", "a", "-", "d", "a", "t", "e">>

\* the three candidates of the example reply
CandA          == Obj(<< <<K_title, Str(<<"A">>)>>, <<K_date, Str(D_Sep15)>> >>)
CandEmptyTitle == Obj(<< <<K_title, Str(<<>>)>>, <<K_date, Str(D_Sep16)>> >>)
CandBadDate    == Obj(<< <<K_title, Str(<<"B">>)>>, <<K_date, Str(D_NotADate)>> >>)

\* every field supplied, text fields padded, an id supplied by the model
CandFull ==
    Obj(<< <<K_id, Str(<<"m", "1">>)>>,
           <<K_title, Str(<<" ", "Q", "1", " ">>)>>,
           <<K_description, Str(<<" ", "d", " ">>)>>,
           <<K_date, Str(D_Sep16)>>,
           <<K_time, Str(<<"0", "9", ":", "0", "0">>)>>,
           <<K_type, Str(<<"e", "x", "a", "m">>)>>,
           <<K_priority, Str(<<"h", "i", "g", "h">>)>>,
           <<K_location, Str(<<" ", "H", "a", "l", "l">>)>> >>)

\* unrecognized type and priority, blank time, null location, 30 February
CandSeminar ==
    Obj(<< <<K_title, Str(<<"S">>)>>,
           <<K_date, Str(D_Feb30)>>,
           <<K_time, Str(<<" ">>)>>,
           <<K_type, Str(<<"s", "e", "m", "i", "n", "a", "r">>)>>,
           <<K_priority, Str(<<"u", "r", "g", "e", "n", "t">>)>>,
           <<K_location, Null>> >>)

\* upper-case type and priority, numeric time and description, and
\* characters that JSON text escapes
CandUpper ==
    Obj(<< <<K_title, Str(<<"q", "\"", "\\">>)>>,
           <<K_date, Str(D_Sep15)>>,
           <<K_description, Num(7)>>,
           <<K_time, Num(930)>>,
           <<K_type, Str(<<"E", "X", "A", "M">>)>>,
           <<K_priority, Str(<<"H", "i", "g", "h">>)>>,
           <<K_location, Str(<<"\t", "x", "\n", "/">>)>> >>)

CandTitleNumber == Obj(<< <<K_title, Num(5)>>, <<K_date, Str(D_Sep15)>> >>)
CandBlankTitle  == Obj(<< <<K_title, Str(<<" ", " ">>)>>, <<K_date, Str(D_Sep15)>> >>)
CandMonth13     == Obj(<< <<K_title, Str(<<"M">>)>>, <<K_date, Str(D_Month13)>> >>)
CandDateNumber  == Obj(<< <<K_title, Str(<<"N">>)>>, <<K_date, Num(20240915)>> >>)

\* a valid candidate whose time is white space and whose location is empty
CandBlankTime ==
    Obj(<< <<K_title, Str(<<"T">>)>>,
           <<K_date, Str(D_Sep16)>>,
           <<K_time, Str(<<" ", " ">>)>>,
           <<K_location, Str(<<>>)>> >>)

Candidates ==
    { CandA, CandEmptyTitle, CandBadDate, CandFull, CandSeminar, CandUpper,
      CandTitleNumber, CandBlankTitle, CandMonth13, CandDateNumber,
      CandBlankTime, Null }

ExampleCandidates == {CandA, CandEmptyTitle, CandBadDate}

RECURSIVE ListsUpTo(_, _)
ListsUpTo(pool, n) ==
    IF n = 0 THEN {<<>>}
    ELSE LET shorter == ListsUpTo(pool, n - 1)
         IN  shorter \cup {Append(l, c) : l \in shorter, c \in pool}

EventsOnly(list) == Obj(<< <<K_events, Arr(list)>> >>)

\* replies with the course fields: supplied, supplied in other types,
\* blank, not numeric
WithCourseFields ==
    { Obj(<< <<K_courseName, Str(<<" ", "C", "S", " ">>)>>,
             <<K_instructor, Str(<<"D", "r">>)>>,
             <<K_semester, Str(<<"F", "a", "l", "l">>)>>,
             <<K_year, Num(2024)>>,
             <<K_events, Arr(<<CandA>>)>> >>),
      Obj(<< <<K_courseName, Num(101)>>,
             <<K_instructor, Str(<<>>)>>,
             <<K_semester, Null>>,
             <<K_year, Str(<<"2", "0", "2", "4">>)>>,
             <<K_events, Arr(<<CandFull>>)>> >>),
      Obj(<< <<K_courseName, Str(<<" ", " ">>)>>,
             <<K_year, Str(<<"n", "e", "x", "t">>)>>,
             <<K_events, Arr(<<>>)>> >>),
      Obj(<< <<K_year, Num(0)>>, <<K_semester, Bool(TRUE)>> >>) }

\* replies whose events field is absent or no array, and replies that are
\* no object
OtherReplies ==
    { Obj(<<>>),
      Obj(<< <<K_events, Null>> >>),
      Obj(<< <<K_events, Str(<<"n", "o", "n", "e">>)>> >>),
      Obj(<< <<K_events, CandA>> >>),
      Arr(<<>>), Arr(<<CandA>>),
      Null, Num(0), Num(5), Str(<<>>), Str(<<"x">>), Bool(FALSE), Bool(TRUE) }

ParsedReplies ==
    {EventsOnly(l) : l \in ListsUpTo(Candidates, MaxEvents)}
        \cup {EventsOnly(l) : l \in ListsUpTo(ExampleCandidates, MaxExample)}
        \cup WithCourseFields \cup OtherReplies

\* the sequences of n ids that n calls of generateEventId can return when
\* the first call is made at time t: the clock does not run backwards and
\* advances by at most one between two calls
IdDraws(t, n) ==
    { [i \in 1..n |-> generateEventId(ts[i], rs[i])] :
        ts \in { f \in [1..n -> t..(t + 1)] :
                    \A i \in 1..n : \A j \in i..n : f[i] <= f[j] },
        rs \in [1..n -> 0..(MaxRnd - 1)] }

\* the clock after the calls that returned ids: the time in the last id
LastTime(t, ids) ==
    IF ids = <<>> THEN t
    ELSE IF ids[Len(ids)] \in {generateEventId(t, r) : r \in 0..(MaxRnd - 1)}
         THEN t ELSE t + 1

InitValidate ==
    /\ CleanIdle
    /\ parsedResult \in ParsedReplies
    /\ validated = Undefined
    /\ body = <<>>
    /\ received = Undefined
    /\ vstage = "parsed"
    /\ RequestsIdle
    /\ now = 1
    /\ UiIdle

\* return this.validateAndCleanResult(parsedResult)      part_000:304, :440
Validate ==
    /\ vstage = "parsed"
    /\ \E ids \in IdDraws(now, NumIdsNeeded(parsedResult)) :
          /\ validated' = validateAndCleanResult(parsedResult, ids)
          /\ now' = LastTime(now, ids)
    /\ vstage' = IF validated'.ok THEN "validated" ELSE "threw"
    /\ UNCHANGED <<cleanVars, parsedResult, body, received, env, uiVars, requestVars>>

\* the successful response carrying the result under another name than
\* the client reads
SuccessBodyAsResult(processedSyllabus) ==
    Obj(<< <<<<"success">>, Bool(TRUE)>>,
           <<<<"result">>, processedSyllabus>> >>)

\* the body of the successful response, route.ts:83-87
SuccessBody(processedSyllabus) ==
    Obj(<< <<<<"success">>, Bool(TRUE)>>,
           <<<<"message">>,
             Str(<<"Successfully extracted ">>
                   \o NatToChars(Len(Get(processedSyllabus, K_events).v))
                   \o <<" events from syllabus">>)>>,
           <<<<"data">>, processedSyllabus>> >>)

\* return NextResponse.json({...})                        route.ts:83-87
Respond ==
    /\ vstage = "validated"
    /\ body' = JSONstringify(SuccessBody(validated.val))
    /\ vstage' = "sent"
    /\ UNCHANGED <<cleanVars, parsedResult, validated, received, now, env, uiVars, requestVars>>

\* const result = await response.json()                   FileUpload.tsx:84
ClientReceive ==
    /\ vstage = "sent"
    /\ received' = JSONparse(body)
    /\ vstage' = "received"
    /\ UNCHANGED <<cleanVars, parsedResult, validated, body, now, env, uiVars, requestVars>>

NextValidate == Validate \/ Respond \/ ClientReceive

SpecValidate == InitValidate /\ [][NextValidate]_vars

(***************************************************************************)
(* Claims about the validator (SpecValidate)                               *)
(***************************************************************************)
\* validateAndCleanResult has returned or thrown
ValidatorDone == vstage \in {"validated", "threw", "sent", "received"}

\* the reply is an object whose events field is a sequence
HasEventList == parsedResult.k = "object" /\ Get(parsedResult, K_events).k = "array"

CandidateList == Get(parsedResult, K_events).v

\* the events of the result that validateAndCleanResult returned
ResultEvents == Get(validated.val, K_events).v

\* a candidate with a non-empty (after trimming) title string and a date
\* string that isValidDateFormat accepts
TitledAndDated(c) ==
    /\ c.k = "object"
    /\ Get(c, K_title).k = "string"
    /\ \E i \in 1..Len(Get(c, K_title).v) : Get(c, K_title).v[i] \notin WhiteSpace
    /\ Get(c, K_date).k = "string"
    /\ isValidDateFormat(Get(c, K_date).v)

\* the positions of the candidates that are titled and dated
KeptPositions == {i \in 1..Len(CandidateList) : TitledAndDated(CandidateList[i])}

\* the position of the candidate that the n-th kept one is
KeptPosition(n) ==
    CHOOSE i \in KeptPositions : Cardinality({j \in KeptPositions : j <= i}) = n

\* C4: for a reply whose events field is a sequence the validator does not
\* fail, and its events are, one for one and in order, the candidates with
\* a non-empty trimmed title string and a valid date string, whatever the
\* other candidates are.
C4_DropsInvalidKeepsValid ==
    (ValidatorDone /\ HasEventList) =>
        /\ validated.ok
        /\ Len(ResultEvents) = Cardinality(KeptPositions)
        /\ \A n \in 1..Len(ResultEvents) :
              LET c == CandidateList[KeptPosition(n)]
              IN  /\ Get(ResultEvents[n], K_title) = Str(Trim(Get(c, K_title).v))
                  /\ Get(ResultEvents[n], K_date) = Get(c, K_date)

\* the example reply: three candidates, only the first valid
C4_Witness ==
    /\ vstage = "validated"
    /\ CandidateList = <<CandA, CandEmptyTitle, CandBadDate>>
    /\ Len(ResultEvents) = 1
    /\ Get(ResultEvents[1], K_title) = Str(<<"A">>)

\* a type or priority the candidate does not supply, or supplies as
\* something that names no member of the set in any letter case
Unrecognized(x, members) ==
    \/ x.k \in {"undefined", "null", "number", "boolean"}
    \/ x.k = "string" /\ ToLowerCase(x.v) \notin members

\* C5: every event of a result has its type in the closed set of types and
\* its priority in {high, medium, low}; an unrecognized or missing type
\* becomes 'other', an unrecognized or missing priority 'medium', and a
\* recognized value is kept.
C5_TypeAndPriorityCoerced ==
    (ValidatorDone /\ validated.ok /\ HasEventList) =>
        \A n \in 1..Len(ResultEvents) :
            LET c == CandidateList[KeptPosition(n)]
                e == ResultEvents[n]
            IN  /\ Get(e, K_type).k = "string"
                /\ Get(e, K_type).v \in validTypes
                /\ Get(e, K_priority).k = "string"
                /\ Get(e, K_priority).v \in validPriorities
                /\ Unrecognized(Get(c, K_type), validTypes)
                      => Get(e, K_type).v = <<"o", "t", "h", "e", "r">>
                /\ Unrecognized(Get(c, K_priority), validPriorities)
                      => Get(e, K_priority).v = <<"m", "e", "d", "i", "u", "m">>
                /\ (Get(c, K_type).k = "string" /\ Get(c, K_type).v \in validTypes)
                      => Get(e, K_type) = Get(c, K_type)
                /\ (Get(c, K_priority).k = "string"
                        /\ Get(c, K_priority).v \in validPriorities)
                      => Get(e, K_priority) = Get(c, K_priority)

\* "seminar" and "urgent" coerced next to a recognized "exam" and "high"
C5_Witness ==
    /\ vstage = "validated"
    /\ CandidateList = <<CandSeminar, CandFull>>
    /\ Get(ResultEvents[1], K_type).v = <<"o", "t", "h", "e", "r">>
    /\ Get(ResultEvents[1], K_priority).v = <<"m", "e", "d", "i", "u", "m">>
    /\ Get(ResultEvents[2], K_type).v = <<"e", "x", "a", "m">>
    /\ Get(ResultEvents[2], K_priority).v = <<"h", "i", "g", "h">>

\* the fields of an event other than its id
ComparedFields ==
    {K_title, K_description, K_date, K_time, K_type, K_priority, K_location}

\* the events the client finds in the response it parsed
ReceivedEvents == Get(Get(received.val, <<"data">>), K_events)

\* C10: the event list of a result, serialized into the response and parsed
\* again, has the same events with the same value in every field but the
\* id, an absent time or location being absent again.
C10_RoundTrip ==
    vstage = "received" =>
        /\ received.ok
        /\ ReceivedEvents.k = "array"
        /\ Len(ReceivedEvents.v) = Len(ResultEvents)
        /\ \A n \in 1..Len(ResultEvents) : \A f \in ComparedFields :
              Get(ReceivedEvents.v[n], f) = Get(ResultEvents[n], f)

\* a round trip of an event without time and location next to one whose
\* strings need escaping
C10_Witness ==
    /\ vstage = "received"
    /\ CandidateList = <<CandA, CandUpper>>
    /\ Get(ReceivedEvents.v[1], K_time) = Undefined
    /\ Get(ReceivedEvents.v[1], K_location) = Undefined
    /\ Get(ReceivedEvents.v[2], K_title) = Str(<<"q", "\"", "\\">>)
    /\ Get(ReceivedEvents.v[2], K_location) = Str(<<"x", "\n", "/">>)

(***************************************************************************)
(* PDFProcessor (pdf-parser.ts).  A buffer is [bytes, pdf]: its leading    *)
(* bytes, written as characters, and what pdf-parse makes of the whole     *)
(* buffer, [ok, text, numpages, error].                                    *)
(***************************************************************************)
ScanThreshold == 100        \* pdf-parser.ts:71
MinContentLength == 50      \* pdf-parser.ts:95
MaxFileSize == 10485760     \* route.ts:27, 10 * 1024 * 1024

E_InvalidFormat == <<"Invalid PDF file format">>
E_Scanned ==
    <<"Scanned PDFs are not currently supported. Please provide a text-based PDF.">>
E_LittleText == <<"PDF appears to contain very little text content">>
E_NoFile == <<"No file uploaded">>
E_OnlyPDF == <<"Only PDF files are supported">>
E_TooLarge == <<"File size must be less than 10MB">>
E_NotConfigured ==
    <<"OpenAI API key not configured. Please set OPENAI_API_KEY environment variable.">>
E_AIFailed ==
    <<"AI processing failed. Please try again or check your syllabus format.">>
E_Unexpected == <<"An unexpected error occurred while processing the syllabus">>
E_NoResponse == <<"No response from OpenAI">>
E_InvalidJSON == <<"Invalid JSON response from AI model">>

\* PDFProcessor.extractText: [ok |-> FALSE] stands for the throw
extractText(buffer) ==
    IF buffer.pdf.ok
    THEN [ok |-> TRUE, text |-> buffer.pdf.text, numpages |-> buffer.pdf.numpages,
          error |-> <<>>]
    ELSE [ok |-> FALSE, text |-> <<>>, numpages |-> 0,
          error |-> <<"Failed to parse PDF: ">> \o buffer.pdf.error]

\* the test accepting any buffer that begins with '%PD'
validatePDFBufferThreeBytes(buffer) ==
    SubSeq(buffer.bytes, 1, Min(3, Len(buffer.bytes))) = <<"%", "P", "D">>

\* PDFProcessor.validatePDFBuffer
validatePDFBuffer(buffer) ==
    SubSeq(buffer.bytes, 1, Min(4, Len(buffer.bytes))) = <<"%", "P", "D", "F">>

\* a / b < limit in floating point, for naturals: a / 0 is Infinity or NaN,
\* and neither is below a limit
QuotientBelow(a, b, limit) == IF b = 0 THEN FALSE ELSE a < limit * b

\* the test of pdf-parser.ts:71 with <= for <
AverageTooLowInclusive(textLength, numpages) ==
    IF numpages = 0 THEN FALSE ELSE textLength <= ScanThreshold * numpages

\* avgTextPerPage < 100                   pdf-parser.ts:68-71
AverageTooLow(textLength, numpages) ==
    QuotientBelow(textLength, numpages, ScanThreshold)

\* isScannedPDF finding no document scanned
isScannedPDFNever(result) == FALSE

\* PDFProcessor.isScannedPDF, given what its call of extractText gave
isScannedPDF(result) ==
    IF ~result.ok THEN TRUE
    ELSE AverageTooLow(Len(Trim(result.text)), result.numpages)

\* the test of pdf-parser.ts:95 made for empty text only
TooLittleContentEmptyOnly(cleanedText) == Len(cleanedText) = 0

\* cleanedText.length < 50                pdf-parser.ts:95
TooLittleContent(cleanedText) == Len(cleanedText) < MinContentLength

(***************************************************************************)
(* SyllabusProcessor: the model calls (part_000:216-310, 408-447)          *)
(***************************************************************************)
PromptHead == "You are an expert at analyzing ... Syllabus text:\n"
PromptTail == "\n\nReturn only valid JSON, no additional text or explanations."

\* the template with the syllabus text after its closing instruction
createExtractionPromptTextLast(syllabusText) ==
    <<PromptHead, PromptTail>> \o syllabusText

\* SyllabusProcessor.createExtractionPrompt
createExtractionPrompt(syllabusText) == <<PromptHead>> \o syllabusText \o <<PromptTail>>

PrimaryMaxTokens == 3000     \* part_000:286
FallbackMaxTokens == 2000    \* part_000:431

\* the request of part_000:273-287
PrimaryCall(syllabusText) ==
    [model |-> "gpt-4", prompt |-> createExtractionPrompt(syllabusText),
     max_tokens |-> PrimaryMaxTokens]

\* the request of part_000:416-432
FallbackCall(syllabusText) ==
    [model |-> "gpt-3.5-turbo", prompt |-> createExtractionPrompt(syllabusText),
     max_tokens |-> FallbackMaxTokens]

\* what a chat completion gives: it throws, or it returns a response whose
\* choices[0]?.message?.content is undefined, null or a string
ApiThrows(message) == [threw |-> TRUE, content |-> Undefined, error |-> message]
ApiReturns(content) == [threw |-> FALSE, content |-> content, error |-> <<>>]

Failed(message) == [ok |-> FALSE, val |-> Undefined, error |-> message]

\* part_000:289-304 and :434-440: the reply checked, parsed and validated;
\* parseError is the message thrown when JSON.parse fails
ProcessReply(reply, ids, parseError) ==
    IF reply.threw THEN Failed(reply.error)
    ELSE IF ~Truthy(reply.content) THEN Failed(E_NoResponse)
    ELSE LET parsed == JSONparse(reply.content.v)
         IN  IF ~parsed.ok THEN Failed(parseError)
             ELSE validateAndCleanResult(parsed.val, ids)

\* extractEvents treating a reply without content as an empty result
extractEventsEmptyIsResult(reply, ids) ==
    IF ~reply.threw /\ ~Truthy(reply.content)
    THEN validateAndCleanResult(Obj(<<>>), ids)
    ELSE LET r == ProcessReply(reply, ids, E_InvalidJSON)
         IN  IF r.ok THEN r ELSE Failed(<<"Failed to process syllabus: ">> \o r.error)

\* SyllabusProcessor.extractEvents once the completion has settled: every
\* error is caught and thrown again wrapped, part_000:306-309
extractEvents(reply, ids) ==
    LET r == ProcessReply(reply, ids, E_InvalidJSON)
    IN  IF r.ok THEN r ELSE Failed(<<"Failed to process syllabus: ">> \o r.error)

\* the inner try of extractEventsWithFallback once the completion has
\* settled, part_000:434-440; JSON.parse throws its own SyntaxError here
fallbackAttempt(reply, ids) ==
    ProcessReply(reply, ids, <<"SyntaxError: Unexpected token in JSON">>)

\* the number of ids that processing the reply draws
IdsNeededFor(reply) ==
    IF reply.threw \/ ~Truthy(reply.content) THEN 0
    ELSE LET parsed == JSONparse(reply.content.v)
         IN  IF parsed.ok THEN NumIdsNeeded(parsed.val) ELSE 0

(***************************************************************************)
(* Spec: the POST handler of route.ts serving request r1, one action for   *)
(* each stretch of code between two awaits.                                *)
(***************************************************************************)
Letters(n) == [i \in 1..n |-> "a"]
Newlines(n) == [i \in 1..n |-> "\n"]

Pdf(pdfText, numpages) ==
    [ok |-> TRUE, text |-> pdfText, numpages |-> numpages, error |-> <<>>]
PdfFails ==
    [ok |-> FALSE, text |-> <<>>, numpages |-> 0, error |-> <<"Invalid PDF structure">>]

\* documents on both sides of the two thresholds
PdfPlain         == Pdf(<<"\n", "\n">> \o Letters(70) \o <<" ", ".">> \o Letters(50), 1)
PdfHundred       == Pdf(Letters(100), 1)
PdfNinetyNine    == Pdf(Letters(99), 1)
PdfPaddedHundred == Pdf(Letters(99) \o <<"\n">>, 1)
PdfTwoPages      == Pdf(Letters(200), 2)
PdfTwoPagesShort == Pdf(Letters(199), 2)
PdfThirty        == Pdf(Letters(30), 1)
PdfSparse        == Pdf(<<"a">> \o Newlines(98) \o <<"a">>, 1)
PdfFifty         == Pdf(Letters(48) \o Newlines(60) \o <<"a">>, 1)
PdfFortyNine     == Pdf(Letters(47) \o Newlines(60) \o <<"a">>, 1)
PdfNoPagesEmpty  == Pdf(<<>>, 0)
PdfNoPages       == Pdf(Letters(60), 0)

Documents ==
    { PdfPlain, PdfHundred, PdfNinetyNine, PdfPaddedHundred, PdfTwoPages,
      PdfTwoPagesShort, PdfThirty, PdfSparse, PdfFifty, PdfFortyNine,
      PdfNoPagesEmpty, PdfNoPages, PdfFails }

GoodHeader == <<"%", "P", "D", "F", "-", "1", ".", "7">>

Headers ==
    { GoodHeader, <<"%", "P", "D", "F">>, <<"%", "P", "D", "X", "-", "1">>,
      <<"%", "P", "D">>, <<"P", "K">>, <<>> }

Buffers ==
    {[bytes |-> GoodHeader, pdf |-> d] : d \in Documents}
        \cup {[bytes |-> h, pdf |-> d] : h \in Headers, d \in {PdfPlain, PdfThirty, PdfFails}}

File(type, size, buffer) ==
    [present |-> TRUE, type |-> type, size |-> size, buffer |-> buffer]
NoFile ==
    [present |-> FALSE, type |-> "", size |-> 0, buffer |-> [bytes |-> <<>>, pdf |-> PdfFails]]

Uploads ==
    {File("application/pdf", 2048, b) : b \in Buffers}
        \cup {File("application/pdf", MaxFileSize, [bytes |-> GoodHeader, pdf |-> PdfPlain]),
              File("application/pdf", MaxFileSize + 1,
                   [bytes |-> GoodHeader, pdf |-> PdfPlain]),
              File("text/plain", 2048, [bytes |-> GoodHeader, pdf |-> PdfPlain]),
              File("text/plain", 2048, [bytes |-> <<"P", "K">>, pdf |-> PdfFails]),
              File("text/plain", MaxFileSize + 1,
                   [bytes |-> <<"P", "K">>, pdf |-> PdfFails]),
              NoFile}

ApiKeys == {Undefined, Str(<<>>), Str(<<"sk-test">>)}

ExampleReply ==
    Obj(<< <<K_courseName, Str(<<"C", "S">>)>>,
           <<K_year, Num(2024)>>,
           <<K_events, Arr(<<CandA, CandEmptyTitle, CandBadDate>>)>> >>)

\* what the model API can answer
ModelReplies ==
    { ApiThrows(<<"Connection error.">>),
      ApiThrows(<<"Request timed out.">>),
      ApiReturns(Undefined),
      ApiReturns(Null),
      ApiReturns(Str(<<>>)),
      ApiReturns(Str(JSONstringify(ExampleReply))),
      ApiReturns(Str(JSONstringify(EventsOnly(<<CandFull, CandSeminar>>)))),
      ApiReturns(Str(<<" ", "{", "}", "\n">>)),
      ApiReturns(Str(<<"[", "]">>)),
      ApiReturns(Str(<<"n", "u", "l", "l">>)),
      ApiReturns(Str(<<"5">>)),
      ApiReturns(Str(<<"Here is the JSON: ", "{", "}">>)),
      ApiReturns(Str(SubSeq(JSONstringify(ExampleReply), 1,
                            Len(JSONstringify(ExampleReply)) - 2))) }

Init ==
    /\ CleanIdle
    /\ ValidateIdle
    /\ now = 1
    /\ env \in ApiKeys
    /\ pc = [r \in Reqs |-> IF r = "r1" THEN "start" ELSE "none"]
    /\ \E u \in Uploads : upload = [r \in Reqs |-> IF r = "r1" THEN u ELSE NoFile]
    /\ extractedText = [r \in Reqs |-> <<>>]
    /\ calls = [r \in Reqs |-> <<>>]
    /\ replies = [r \in Reqs |-> <<>>]
    /\ decodes = [r \in Reqs |-> 0]
    /\ caught = [r \in Reqs |-> NothingCaught]
    /\ response = [r \in Reqs |-> NoResponse]
    /\ UiIdle

\* the error response marked as a success
ErrorBodyMarkedSuccess(message) ==
    Obj(<< <<<<"success">>, Bool(TRUE)>>, <<<<"error">>, Str(message)>> >>)

ErrorBody(message) ==
    Obj(<< <<<<"success">>, Bool(FALSE)>>, <<<<"error">>, Str(message)>> >>)

\* the response kept in one place that all requests share
ReturnShared(r, status, bodyObject) ==
    /\ response' = [q \in Reqs |-> [status |-> status, body |-> bodyObject]]
    /\ pc' = [pc EXCEPT ![r] = "done"]

\* return NextResponse.json(bodyObject, { status })
Return(r, status, bodyObject) ==
    /\ response' = [response EXCEPT ![r] = [status |-> status, body |-> bodyObject]]
    /\ pc' = [pc EXCEPT ![r] = "done"]

Goto(r, label) ==
    /\ pc' = [pc EXCEPT ![r] = label]
    /\ UNCHANGED response

\* the file checked for its size before its type
ReceiveUploadSizeFirst(r) ==
    /\ pc[r] = "start"
    /\ IF ~upload[r].present THEN Return(r, 400, ErrorBody(E_NoFile))
       ELSE IF upload[r].size > MaxFileSize
            THEN Return(r, 400, ErrorBody(E_TooLarge))
       ELSE IF upload[r].type # "application/pdf"
            THEN Return(r, 400, ErrorBody(E_OnlyPDF))
       ELSE Goto(r, "processForAI")
    /\ UNCHANGED <<cleanVars, validateVars, now, env, uiVars, upload, extractedText, calls,
                   replies, decodes, caught>>

\* route.ts:6-37: the form data read and the file checked
ReceiveUpload(r) ==
    /\ pc[r] = "start"
    /\ IF ~upload[r].present THEN Return(r, 400, ErrorBody(E_NoFile))
       ELSE IF upload[r].type # "application/pdf"
            THEN Return(r, 400, ErrorBody(E_OnlyPDF))
       ELSE IF upload[r].size > MaxFileSize
            THEN Return(r, 400, ErrorBody(E_TooLarge))
       ELSE Goto(r, "processForAI")
    /\ UNCHANGED <<cleanVars, validateVars, now, env, uiVars, upload, extractedText, calls,
                   replies, decodes, caught>>

\* pdf-parser.ts:80-86, route.ts:43-52: the signature checked
ValidatePDF(r) ==
    /\ pc[r] = "processForAI"
    /\ IF ~validatePDFBuffer(upload[r].buffer)
       THEN Return(r, 400, ErrorBody(E_InvalidFormat))
       ELSE Goto(r, "isScannedPDF")
    /\ UNCHANGED <<cleanVars, validateVars, now, env, uiVars, upload, extractedText, calls,
                   replies, decodes, caught>>

\* pdf-parser.ts:64-75, :86-91: the first decoding and the scan check
CheckScanned(r) ==
    /\ pc[r] = "isScannedPDF"
    /\ decodes' = [decodes EXCEPT ![r] = @ + 1]
    /\ IF isScannedPDF(extractText(upload[r].buffer))
       THEN Return(r, 400, ErrorBody(E_Scanned))
       ELSE Goto(r, "extractText")
    /\ UNCHANGED <<cleanVars, validateVars, now, env, uiVars, upload, extractedText, calls,
                   replies, caught>>

\* pdf-parser.ts:92-99, route.ts:42-52: the second decoding, the text
\* cleaned and its length checked
ExtractAndClean(r) ==
    /\ pc[r] = "extractText"
    /\ decodes' = [decodes EXCEPT ![r] = @ + 1]
    /\ LET result == extractText(upload[r].buffer)
           cleanedText == cleanText(result.text)
       IN  IF ~result.ok
           THEN Return(r, 400, ErrorBody(result.error)) /\ UNCHANGED extractedText
           ELSE IF TooLittleContent(cleanedText)
                THEN Return(r, 400, ErrorBody(E_LittleText)) /\ UNCHANGED extractedText
                ELSE /\ extractedText' = [extractedText EXCEPT ![r] = cleanedText]
                     /\ Goto(r, "credential")
    /\ UNCHANGED <<cleanVars, validateVars, now, env, uiVars, upload, calls, replies, caught>>

\* the test that finds every environment configured
CredentialConfiguredAlways(key) == TRUE

\* !process.env.OPENAI_API_KEY is false      route.ts:55
CredentialConfigured(key) == Truthy(key)

\* route.ts:54-64
CheckCredential(r) ==
    /\ pc[r] = "credential"
    /\ IF ~CredentialConfigured(env)
       THEN Return(r, 500, ErrorBody(E_NotConfigured))
       ELSE Goto(r, "extractEvents")
    /\ UNCHANGED <<cleanVars, validateVars, now, env, uiVars, upload, extractedText, calls,
                   replies, decodes, caught>>

\* route.ts:66-70, part_000:207-211, :409-411, :270-287: the processor
\* constructed (the OpenAI client throws without a key, which the outer
\* catch of route.ts:89-97 answers) and the primary completion asked for
CallPrimary(r) ==
    /\ pc[r] = "extractEvents"
    /\ IF ~Truthy(env)
       THEN Return(r, 500, ErrorBody(E_Unexpected)) /\ UNCHANGED calls
       ELSE /\ calls' = [calls EXCEPT ![r] = Append(@, PrimaryCall(extractedText[r]))]
            /\ Goto(r, "awaitPrimary")
    /\ UNCHANGED <<cleanVars, validateVars, now, env, uiVars, upload, extractedText, replies,
                   decodes, caught>>

\* part_000:289-309, :411-432, route.ts:82-87: the primary completion
\* settles; its result is returned, or its error is caught and the
\* fallback completion asked for
PrimaryReturns(r) ==
    /\ pc[r] = "awaitPrimary"
    /\ \E reply \in ModelReplies :
         \E ids \in IdDraws(now, IdsNeededFor(reply)) :
            LET out == extractEvents(reply, ids)
            IN  /\ replies' = [replies EXCEPT ![r] = Append(@, reply)]
                /\ now' = LastTime(now, ids)
                /\ IF out.ok
                   THEN /\ Return(r, 200, SuccessBody(out.val))
                        /\ UNCHANGED <<calls, caught>>
                   ELSE /\ caught' = [caught EXCEPT ![r].primary = out.error]
                        /\ calls' = [calls EXCEPT
                                       ![r] = Append(@, FallbackCall(extractedText[r]))]
                        /\ Goto(r, "awaitFallback")
    /\ UNCHANGED <<cleanVars, validateVars, env, uiVars, upload, extractedText, decodes>>

\* part_000:434-445, route.ts:71-87: the fallback completion settles; its
\* result is returned, or its error is caught and the fixed error thrown
FallbackReturns(r) ==
    /\ pc[r] = "awaitFallback"
    /\ \E reply \in ModelReplies :
         \E ids \in IdDraws(now, IdsNeededFor(reply)) :
            LET out == fallbackAttempt(reply, ids)
            IN  /\ replies' = [replies EXCEPT ![r] = Append(@, reply)]
                /\ now' = LastTime(now, ids)
                /\ IF out.ok
                   THEN /\ Return(r, 200, SuccessBody(out.val))
                        /\ UNCHANGED caught
                   ELSE /\ caught' = [caught EXCEPT ![r].fallback = out.error]
                        /\ Return(r, 500, ErrorBody(E_AIFailed))
    /\ UNCHANGED <<cleanVars, validateVars, env, uiVars, upload, extractedText, calls, decodes>>

Next ==
    \E r \in Reqs :
        \/ ReceiveUpload(r)
        \/ ValidatePDF(r)
        \/ CheckScanned(r)
        \/ ExtractAndClean(r)
        \/ CheckCredential(r)
        \/ CallPrimary(r)
        \/ PrimaryReturns(r)
        \/ FallbackReturns(r)

Spec == Init /\ [][Next]_vars

(***************************************************************************)
(* Claims about the request handler (Spec)                                 *)
(***************************************************************************)
\* the error message of the response to request r (undefined if none)
ErrorOf(r) == Get(response[r].body, <<"error">>)

\* the first four bytes are '%PDF'
BeginsWithSignature(bytes) ==
    /\ Len(bytes) >= 4
    /\ bytes[1] = "%" /\ bytes[2] = "P" /\ bytes[3] = "D" /\ bytes[4] = "F"

\* the upload of request r reaches processForAI
PassesUploadChecks(r) ==
    /\ upload[r].present
    /\ upload[r].type = "application/pdf"
    /\ upload[r].size <= MaxFileSize

\* processForAI has returned or thrown for request r
ProcessForAIFinished(r) ==
    /\ PassesUploadChecks(r)
    /\ pc[r] \in {"credential", "extractEvents", "awaitPrimary", "awaitFallback", "done"}

\* processForAI has thrown the error with this message, and the handler
\* has answered with it
ProcessForAIFailedWith(r, message) ==
    /\ pc[r] = "done"
    /\ response[r].status = 400
    /\ ErrorOf(r) = Str(message)
    /\ extractedText[r] = <<>>

\* C1: for a blob whose first 4 bytes are not '%PDF', processForAI fails
\* with 'Invalid PDF file format', and the request makes no call to the
\* model, primary or fallback.
C1_BadSignatureRejected ==
    \A r \in Reqs :
        (upload[r].present /\ ~BeginsWithSignature(upload[r].buffer.bytes)) =>
            /\ calls[r] = <<>>
            /\ replies[r] = <<>>
            /\ ProcessForAIFinished(r) => ProcessForAIFailedWith(r, E_InvalidFormat)

\* a readable document behind a header that differs in the fourth byte,
\* rejected while a credential is configured
C1_Witness ==
    /\ upload["r1"].buffer = [bytes |-> <<"%", "P", "D", "X", "-", "1">>, pdf |-> PdfPlain]
    /\ Truthy(env)
    /\ ProcessForAIFailedWith("r1", E_InvalidFormat)

\* the attempt that gets this answer fails: a network error, no content,
\* content that is no JSON text, or JSON text for something that is no
\* object
AttemptFails(reply) ==
    \/ reply.threw
    \/ reply.content.k # "string"
    \/ reply.content.v = <<>>
    \/ ~JSONparse(reply.content.v).ok
    \/ JSONparse(reply.content.v).val.k \notin {"object", "array"}

\* C2: a run of extractEventsWithFallback calls the model at most twice,
\* the primary model first; when the primary attempt fails, one fallback
\* call with the secondary model and the same prompt is made; when it
\* succeeds, none; after the fallback attempt no call is made.
C2_AtMostOneFallback ==
    \A r \in Reqs :
        /\ Len(calls[r]) <= 2
        /\ Len(replies[r]) <= Len(calls[r])
        /\ Len(calls[r]) >= 1 => calls[r][1].model = "gpt-4"
        /\ Len(calls[r]) = 2 =>
              /\ calls[r][2].model = "gpt-3.5-turbo"
              /\ calls[r][2].prompt = calls[r][1].prompt
        /\ Len(replies[r]) >= 1 => (Len(calls[r]) = 2 <=> AttemptFails(replies[r][1]))
        /\ Len(replies[r]) = 2 => pc[r] = "done"

\* both attempts made and failed, the fallback after a primary reply that
\* was no JSON text
C2_Witness ==
    /\ pc["r1"] = "done"
    /\ Len(calls["r1"]) = 2
    /\ replies["r1"][1] = ApiReturns(Str(<<"Here is the JSON: ", "{", "}">>))
    /\ replies["r1"][2] = ApiReturns(Null)
    /\ response["r1"].status = 500

\* sub occurs in s
Contains(s, sub) ==
    \E i \in 0..(Len(s) - Len(sub)) : SubSeq(s, i + 1, i + Len(sub)) = sub

\* both model attempts of request r have failed
BothAttemptsFailed(r) ==
    /\ pc[r] = "done"
    /\ Len(replies[r]) = 2
    /\ caught[r].fallback # <<>>

\* C3: when both attempts fail, the error surfaced is the extraction
\* failure and carries the message of the fallback attempt's failure, not
\* that of the primary attempt's.
C3_SurfacesFallbackCause ==
    \A r \in Reqs :
        BothAttemptsFailed(r) =>
            /\ response[r].status = 500
            /\ Contains(ErrorOf(r).v, caught[r].fallback)
            /\ ~Contains(ErrorOf(r).v, caught[r].primary)

\* the credential is present: a non-empty string
KeyPresent == env.k = "string" /\ env.v # <<>>

\* the messages of the errors of the model layer
ModelErrors == {Str(E_AIFailed), Str(E_NoResponse), Str(E_InvalidJSON)}

DocumentOf(r) == upload[r].buffer.pdf

\* request r has a document with a valid signature that can be decoded
HasReadableDocument(r) ==
    /\ ProcessForAIFinished(r)
    /\ BeginsWithSignature(upload[r].buffer.bytes)
    /\ DocumentOf(r).ok

\* the average length of the trimmed text per page is below 100
AverageBelowThreshold(doc) ==
    doc.numpages >= 1 /\ Len(Trim(doc.text)) < 100 * doc.numpages

\* the average length of the trimmed text per page is at least 100
\* (infinite for text on no pages)
AverageAtLeastThreshold(doc) ==
    \/ doc.numpages >= 1 /\ Len(Trim(doc.text)) >= 100 * doc.numpages
    \/ doc.numpages = 0 /\ Len(Trim(doc.text)) > 0

\* C7 as stated: a document with a valid signature whose cleaned text is
\* under 50 characters makes processForAI fail with 'PDF appears to
\* contain very little text content'.
C7_ShortTextInsufficient ==
    \A r \in Reqs :
        (HasReadableDocument(r) /\ Len(cleanText(DocumentOf(r).text)) < 50) =>
            ProcessForAIFailedWith(r, E_LittleText)

\* C7 amended: a document with a valid signature that scan detection lets
\* through (its average trimmed text length per page is not below 100)
\* and whose cleaned text is under 50 characters makes processForAI fail
\* with 'PDF appears to contain very little text content'.
C7_ShortTextInsufficientAfterScan ==
    \A r \in Reqs :
        (/\ HasReadableDocument(r)
         /\ ~AverageBelowThreshold(DocumentOf(r))
         /\ Len(cleanText(DocumentOf(r).text)) < 50) =>
            ProcessForAIFailedWith(r, E_LittleText)

\* a page of 100 characters, nearly all white space, that cleans to 3
C7_Witness ==
    /\ DocumentOf("r1") = PdfSparse
    /\ HasReadableDocument("r1")
    /\ ProcessForAIFailedWith("r1", E_LittleText)

\* C8: scan detection goes by the average text length per page against
\* 100: at an average of 100 or more processForAI does not fail with the
\* scanned-document error, below 100 it does.
C8_ScanDetectionByAverage ==
    \A r \in Reqs :
        HasReadableDocument(r) =>
            /\ AverageAtLeastThreshold(DocumentOf(r)) => ErrorOf(r) # Str(E_Scanned)
            /\ AverageBelowThreshold(DocumentOf(r)) => ProcessForAIFailedWith(r, E_Scanned)

\* 199 characters on two pages: more than 100 in all, below 100 per page
C8_Witness ==
    /\ DocumentOf("r1") = PdfTwoPagesShort
    /\ HasReadableDocument("r1")
    /\ ProcessForAIFailedWith("r1", E_Scanned)

(***************************************************************************)
(* Further claims about the validator (SpecValidate)                       *)
(***************************************************************************)
\* the number of days of a month of the Gregorian calendar
DaysInMonth(year, month) ==
    IF month \in {4, 6, 9, 11} THEN 30
    ELSE IF month # 2 THEN 31
    ELSE IF (year % 4 = 0 /\ year % 100 # 0) \/ year % 400 = 0 THEN 29
    ELSE 28

\* d is written YYYY-MM-DD and names a day of the calendar
RealCalendarDate(d) ==
    /\ Len(d) = 10
    /\ d[5] = "-" /\ d[8] = "-"
    /\ \A i \in {1, 2, 3, 4, 6, 7, 9, 10} : \E n \in 1..10 : Digits[n] = d[i]
    /\ LET year == CharsToNat(SubSeq(d, 1, 4))
           month == CharsToNat(SubSeq(d, 6, 7))
           day == CharsToNat(SubSeq(d, 9, 10))
       IN  /\ month \in 1..12
           /\ day >= 1
           /\ day <= DaysInMonth(year, month)

\* C11: every event of a result has a title that is not empty after
\* trimming and a date written YYYY-MM-DD that names a real day of the
\* calendar (no 30th of February, no month 13).
C11_TitledWithRealDate ==
    (ValidatorDone /\ validated.ok) =>
        \A n \in 1..Len(ResultEvents) :
            LET e == ResultEvents[n]
            IN  /\ Get(e, K_title).k = "string"
                /\ Get(e, K_title).v # <<>>
                /\ Get(e, K_title).v[1] \notin WhiteSpace
                /\ Get(e, K_date).k = "string"
                /\ RealCalendarDate(Get(e, K_date).v)

\* the id of the n-th event of the result
ResultId(n) == Get(ResultEvents[n], K_id)

\* C12: every event of a result carries an id made at validation time,
\* which is never the id its candidate supplied, and the ids of the events
\* of one result differ pairwise.
C12_IdsFreshAndDistinct ==
    (ValidatorDone /\ validated.ok /\ HasEventList) =>
        /\ \A n \in 1..Len(ResultEvents) :
              /\ ResultId(n).k = "string"
              /\ ResultId(n).v # <<>>
              /\ ResultId(n).v[1] = "event-"
              /\ ResultId(n) # Get(CandidateList[KeptPosition(n)], K_id)
        /\ \A m \in 1..Len(ResultEvents) : \A n \in 1..Len(ResultEvents) :
              m # n => ResultId(m) # ResultId(n)

\* C14: a parsed reply that is no JSON object (null, a number, a string, a
\* boolean or an array) makes validateAndCleanResult fail instead of
\* returning a result.
C14_OnlyObjectsAccepted ==
    (ValidatorDone /\ parsedResult.k # "object") =>
        /\ vstage = "threw"
        /\ ~validated.ok

\* an optional field that the candidate lacks or supplies as null, as the
\* empty string or as white space only
BlankOrMissing(x) ==
    \/ x.k \in {"undefined", "null"}
    \/ x.k = "string" /\ \A i \in 1..Len(x.v) : x.v[i] \in WhiteSpace

OptionalFields == {K_time, K_location}

\* C16: an event of a result has a time (a location) only if its candidate
\* supplied one that is not empty after trimming; a candidate whose time
\* (location) is missing, null, empty or white space only gives an event
\* without that field.
C16_OptionalFieldsOnlyIfNonBlank ==
    (ValidatorDone /\ validated.ok /\ HasEventList) =>
        \A n \in 1..Len(ResultEvents) : \A f \in OptionalFields :
            LET c == CandidateList[KeptPosition(n)]
                e == ResultEvents[n]
            IN  /\ BlankOrMissing(Get(c, f)) => Get(e, f) = Undefined
                /\ Get(e, f) # Undefined =>
                      /\ Get(e, f).k = "string"
                      /\ Get(e, f).v # <<>>
                      /\ ~BlankOrMissing(Get(c, f))

\* t is written HH:MM and names a time of the 24-hour clock
IsClockTime(t) ==
    /\ Len(t) = 5
    /\ t[3] = ":"
    /\ \A i \in {1, 2, 4, 5} : \E n \in 1..10 : Digits[n] = t[i]
    /\ CharsToNat(SubSeq(t, 1, 2)) <= 23
    /\ CharsToNat(SubSeq(t, 4, 5)) <= 59

\* C17: the time of an event of a result, when the event has one, is a
\* time of the 24-hour clock written HH:MM.
C17_TimeIsClockTime ==
    (ValidatorDone /\ validated.ok) =>
        \A n \in 1..Len(ResultEvents) :
            LET t == Get(ResultEvents[n], K_time)
            IN  t = Undefined \/ (t.k = "string" /\ IsClockTime(t.v))

\* the reply supplies x: x is there, and is neither null nor the empty
\* string
Supplied(x) == x.k \notin {"undefined", "null"} /\ x # Str(<<>>)

TextCourseFields == {K_courseName, K_instructor, K_semester}

\* C20: the result has courseName, instructor and semester exactly when
\* the reply supplied them, as the trimmed text of what was supplied; it
\* has year exactly when the reply supplied one, and year is then a
\* number.
C20_CourseFieldsCopied ==
    (ValidatorDone /\ validated.ok /\ parsedResult.k = "object") =>
        /\ \A f \in TextCourseFields :
              LET x == Get(parsedResult, f)
                  y == Get(validated.val, f)
              IN  /\ Supplied(x) <=> y # Undefined
                  /\ Supplied(x) => y = Str(Trim(StringOf(x)))
        /\ LET x == Get(parsedResult, K_year)
               y == Get(validated.val, K_year)
           IN  /\ Supplied(x) <=> y # Undefined
               /\ Supplied(x) => y.k = "number"

(***************************************************************************)
(* Further claims about the request handler (Spec)                         *)
(***************************************************************************)
\* the model answered with text that is no JSON text
Unparseable(reply) ==
    /\ ~reply.threw
    /\ reply.content.k = "string"
    /\ reply.content.v # <<>>
    /\ ~JSONparse(reply.content.v).ok

\* C13: when the reply of an attempt cannot be parsed as JSON, the failure
\* of that attempt is the malformed-response error, and when the
\* extraction fails on such a reply the error surfaced is the
\* malformed-response error, not a generic one.
C13_UnparseableIsMalformed ==
    \A r \in Reqs :
        /\ (Len(replies[r]) >= 1 /\ Unparseable(replies[r][1])) =>
              Contains(caught[r].primary, E_InvalidJSON)
        /\ (pc[r] = "done" /\ Len(replies[r]) = 2 /\ Unparseable(replies[r][2])) =>
              /\ response[r].status = 500
              /\ Contains(ErrorOf(r).v, E_InvalidJSON)

\* C18: when the document cannot be decoded, processForAI fails with the
\* decoding failure itself, its message included, and not with another
\* outcome.
C18_DecodeFailurePropagates ==
    \A r \in Reqs :
        (/\ ProcessForAIFinished(r)
         /\ BeginsWithSignature(upload[r].buffer.bytes)
         /\ ~DocumentOf(r).ok) =>
            /\ response[r].status = 400
            /\ ErrorOf(r) # Str(E_Scanned)
            /\ Contains(ErrorOf(r).v, DocumentOf(r).error)

\* the messages of the errors of the document text extractor
ExtractorErrors == {Str(E_InvalidFormat), Str(E_Scanned), Str(E_LittleText)}

\* the document of request r passes the signature check, scan detection
\* and the minimum-content check
ExtractorChecksPass(r) ==
    /\ BeginsWithSignature(upload[r].buffer.bytes)
    /\ DocumentOf(r).ok
    /\ ~AverageBelowThreshold(DocumentOf(r))
    /\ Len(cleanText(DocumentOf(r).text)) >= 50

\* the number of decodings made when the extractor fails with an error
DecodingsBefore(error) ==
    IF error = Str(E_InvalidFormat) THEN 0
    ELSE IF error = Str(E_Scanned) THEN 1
    ELSE 2

\* the model is called only for a document that passed the three checks,
\* with the prompt made from its normalized text; a request answered with
\* an extractor error is over, has made no model call, and has decoded
\* the document no more often than the checks up to the failing one do
OneWayFlow(r) ==
    /\ calls[r] # <<>> =>
          /\ ExtractorChecksPass(r)
          /\ extractedText[r] = cleanText(DocumentOf(r).text)
          /\ \A i \in 1..Len(calls[r]) :
                calls[r][i].prompt = createExtractionPrompt(extractedText[r])
    /\ (ProcessForAIFinished(r) /\ ~ExtractorChecksPass(r)) =>
          /\ response[r].status = 400
          /\ ErrorOf(r) \in ExtractorErrors
    /\ (response[r].status = 400 /\ ErrorOf(r) \in ExtractorErrors) =>
          /\ pc[r] = "done"
          /\ calls[r] = <<>>
          /\ replies[r] = <<>>
          /\ extractedText[r] = <<>>
          /\ decodes[r] = DecodingsBefore(ErrorOf(r))

\* nothing happens for a request that has been answered
AnsweredIsOver(r) ==
    pc[r] = "done" =>
        /\ pc'[r] = "done"
        /\ response'[r] = response[r]
        /\ calls'[r] = calls[r]
        /\ replies'[r] = replies[r]
        /\ decodes'[r] = decodes[r]

\* C19: within a request the model is called only after the signature
\* check, scan detection and the minimum-content check have all passed;
\* after a failure of the document text extractor the request ends with
\* that error, without another extraction and without a model call.
C19_ExtractorFailuresTerminal ==
    /\ [](\A r \in Reqs : OneWayFlow(r))
    /\ [][\A r \in Reqs : AnsweredIsOver(r)]_vars

\* a document rejected for too little text after two decodings, with the
\* credential configured and no model call
C19_Witness ==
    /\ Truthy(env)
    /\ DocumentOf("r1") = PdfFortyNine
    /\ ProcessForAIFailedWith("r1", E_LittleText)
    /\ decodes["r1"] = 2
    /\ calls["r1"] = <<>>

(***************************************************************************)
(* SpecTwo: two requests served at once.  Each await of the handler is a   *)
(* point where the other request can run (the steps of Spec, interleaved). *)
(***************************************************************************)
\* the uploads of the first request: a document that reaches the model
\* and one that scan detection rejects
FirstUploads ==
    { File("application/pdf", 2048, [bytes |-> GoodHeader, pdf |-> PdfPlain]),
      File("application/pdf", 2048, [bytes |-> GoodHeader, pdf |-> PdfThirty]) }

\* the uploads of the second request: another document that reaches the
\* model, the same rejected document, and no file
SecondUploads ==
    { File("application/pdf", 2048, [bytes |-> GoodHeader, pdf |-> PdfFifty]),
      File("application/pdf", 2048, [bytes |-> GoodHeader, pdf |-> PdfThirty]),
      NoFile }

\* the answers of the model API to the two requests
TwoReplies ==
    { ApiThrows(<<"Connection error.">>),
      ApiReturns(Str(JSONstringify(ExampleReply))),
      ApiReturns(Str(<<"Here is the JSON: ", "{", "}">>)) }

InitTwo ==
    /\ CleanIdle
    /\ ValidateIdle
    /\ now = 1
    /\ env \in ApiKeys
    /\ pc = [r \in Reqs |-> "start"]
    /\ \E u1 \in FirstUploads : \E u2 \in SecondUploads :
          upload = [r \in Reqs |-> IF r = "r1" THEN u1 ELSE u2]
    /\ extractedText = [r \in Reqs |-> <<>>]
    /\ calls = [r \in Reqs |-> <<>>]
    /\ replies = [r \in Reqs |-> <<>>]
    /\ decodes = [r \in Reqs |-> 0]
    /\ caught = [r \in Reqs |-> NothingCaught]
    /\ response = [r \in Reqs |-> NoResponse]
    /\ UiIdle

\* the answer that request r has just got is one of pool
ReplyAmong(r, pool) == replies'[r][Len(replies'[r])] \in pool

NextTwo ==
    \E r \in Reqs :
        \/ ReceiveUpload(r)
        \/ ValidatePDF(r)
        \/ CheckScanned(r)
        \/ ExtractAndClean(r)
        \/ CheckCredential(r)
        \/ CallPrimary(r)
        \/ PrimaryReturns(r) /\ ReplyAmong(r, TwoReplies)
        \/ FallbackReturns(r) /\ ReplyAmong(r, TwoReplies)

SpecTwo == InitTwo /\ [][NextTwo]_vars

(***************************************************************************)
(* Claims about concurrent requests (SpecTwo)                              *)
(***************************************************************************)
\* what processForAI gives for a buffer when nothing else runs
AloneText(buffer) ==
    IF ~validatePDFBuffer(buffer) THEN Failed(E_InvalidFormat)
    ELSE IF isScannedPDF(extractText(buffer)) THEN Failed(E_Scanned)
    ELSE LET result == extractText(buffer)
             cleanedText == cleanText(result.text)
         IN  IF ~result.ok THEN Failed(result.error)
             ELSE IF TooLittleContent(cleanedText) THEN Failed(E_LittleText)
             ELSE [ok |-> TRUE, val |-> cleanedText, error |-> <<>>]

\* the upload is answered before processForAI is called
UploadRefused(u) ==
    \/ ~u.present
    \/ u.type # "application/pdf"
    \/ u.size > MaxFileSize

\* the response to an attempt's outcome
AnswerTo(out) ==
    IF out.ok THEN [status |-> 200, body |-> SuccessBody(out.val)]
    ELSE [status |-> 500, body |-> ErrorBody(E_AIFailed)]

\* the sequences of ids that processing the answer can draw, the clock
\* reading anything up to latest
DrawsFor(answer, latest) ==
    UNION {IdDraws(t, IdsNeededFor(answer)) : t \in 1..latest}

\* the responses that a request with this upload can get when it runs
\* alone with this credential and these answers of the model API
AloneResponses(u, key, answers, latest) ==
    IF ~u.present THEN {[status |-> 400, body |-> ErrorBody(E_NoFile)]}
    ELSE IF u.type # "application/pdf"
         THEN {[status |-> 400, body |-> ErrorBody(E_OnlyPDF)]}
    ELSE IF u.size > MaxFileSize
         THEN {[status |-> 400, body |-> ErrorBody(E_TooLarge)]}
    ELSE LET extracted == AloneText(u.buffer)
         IN  IF ~extracted.ok
             THEN {[status |-> 400, body |-> ErrorBody(extracted.error)]}
             ELSE IF ~CredentialConfigured(key)
                  THEN {[status |-> 500, body |-> ErrorBody(E_NotConfigured)]}
             ELSE IF answers = <<>> THEN {}
             ELSE IF ~AttemptFails(answers[1])
                  THEN { AnswerTo(extractEvents(answers[1], ids)) :
                           ids \in DrawsFor(answers[1], latest) }
             ELSE IF Len(answers) < 2 THEN {}
             ELSE { AnswerTo(fallbackAttempt(answers[2], ids)) :
                      ids \in DrawsFor(answers[2], latest) }

\* the model calls that such a request makes
AloneCalls(u, key, answers) ==
    IF UploadRefused(u) THEN <<>>
    ELSE LET extracted == AloneText(u.buffer)
         IN  IF ~extracted.ok \/ ~CredentialConfigured(key) THEN <<>>
             ELSE IF answers # <<>> /\ AttemptFails(answers[1])
                  THEN <<PrimaryCall(extracted.val), FallbackCall(extracted.val)>>
                  ELSE <<PrimaryCall(extracted.val)>>

\* C15: whatever the interleaving of two requests, each request that has
\* been answered has the response, and has made the model calls, that it
\* has when it runs alone with the same upload, credential and answers of
\* the model.
C15_RequestsDoNotInterfere ==
    \A r \in Reqs :
        pc[r] = "done" =>
            /\ response[r] \in AloneResponses(upload[r], env, replies[r], now)
            /\ calls[r] = AloneCalls(upload[r], env, replies[r])

\* two requests with different documents, both answered after two model
\* calls each: one with a result, the other with an error
C15_Witness ==
    /\ pc = [r \in Reqs |-> "done"]
    /\ DocumentOf("r1") = PdfPlain
    /\ DocumentOf("r2") = PdfFifty
    /\ Len(calls["r1"]) = 2
    /\ Len(calls["r2"]) = 2
    /\ calls["r1"][1].prompt # calls["r2"][1].prompt
    /\ response["r1"].status = 200
    /\ response["r2"].status = 500

(***************************************************************************)
(* Further claims about the normalizer (SpecClean)                         *)
(***************************************************************************)
\* the curly quotation marks: U+201C, U+201D, U+2018, U+2019
CurlyQuotes == {"U+201C", "U+201D", "U+2018", "U+2019"}

\* cleanText has been applied to text
Cleaned == cstage \in {"once", "twice"}

\* C21: the output of cleanText has no two white-space characters in a
\* row, no form feed or carriage return, no bullet glyph, no curly quote,
\* and no white space immediately before one of . , ; : ! ?
C21_CleanedIsNormal ==
    Cleaned =>
        /\ \A i \in 1..Len(cleaned) :
              /\ cleaned[i] \notin PageBreaks
              /\ cleaned[i] \notin Bullets
              /\ cleaned[i] \notin CurlyQuotes
        /\ \A i \in 1..(Len(cleaned) - 1) :
              /\ ~(cleaned[i] \in WhiteSpace /\ cleaned[i + 1] \in WhiteSpace)
              /\ ~(cleaned[i] \in WhiteSpace /\ cleaned[i + 1] \in Punctuation)

(***************************************************************************)
(* Claims about the prompt (Spec)                                          *)
(***************************************************************************)
\* the prompts of the model calls of request r
PromptsOf(r) == {calls[r][i].prompt : i \in 1..Len(calls[r])}

\* the completions request r has asked for and not yet got an answer to
Pending(r) == IF pc[r] \in {"awaitPrimary", "awaitFallback"} THEN 1 ELSE 0

\* C22 as stated: the prompt is the instruction template followed by the
\* syllabus text copied verbatim, and the syllabus text is the last part
\* of the prompt: nothing follows it.
C22_TextEndsPrompt ==
    \A r \in Reqs : \A p \in PromptsOf(r) :
        LET t == extractedText[r]
        IN  /\ Len(p) > Len(t)
            /\ p[1] = PromptHead
            /\ SubSeq(p, Len(p) - Len(t) + 1, Len(p)) = t

\* C22 amended: the prompt is the instruction template with the syllabus
\* text copied verbatim after the template's instructions and followed
\* only by the template's closing line ('Return only valid JSON, no
\* additional text or explanations.'); building it makes no model call,
\* and the same text gives the same prompt.
C22_TextVerbatimBeforeClosingLine ==
    \A r \in Reqs :
        /\ \A p \in PromptsOf(r) :
              LET t == extractedText[r]
              IN  /\ Len(p) = Len(t) + 2
                  /\ p[1] = PromptHead
                  /\ SubSeq(p, 2, Len(t) + 1) = t
                  /\ p[Len(p)] = PromptTail
        /\ Cardinality(PromptsOf(r)) <= 1
        /\ Len(calls[r]) = Len(replies[r]) + Pending(r)

\* the prompt built twice from the cleaned text of one document
C22_Witness ==
    /\ DocumentOf("r1") = PdfPlain
    /\ Len(calls["r1"]) = 2
    /\ extractedText["r1"] = cleanText(PdfPlain.text)
    /\ calls["r1"][2].prompt[2] = "a"

(***************************************************************************)
(* SpecFair: the handler when every awaited call settles: a step that is   *)
(* enabled (the handler's own code, or a decoding or a completion          *)
(* returning or failing) is eventually taken.                              *)
(***************************************************************************)
\* the steps of request r other than the second decoding
HandlerStep(r) ==
    \/ ReceiveUpload(r)
    \/ ValidatePDF(r)
    \/ CheckScanned(r)
    \/ CheckCredential(r)
    \/ CallPrimary(r)
    \/ PrimaryReturns(r)
    \/ FallbackReturns(r)

\* weak fairness of ExtractAndClean(r), which is enabled exactly while the
\* handler awaits the second decoding: the handler does not stay there
SecondDecodingSettles(r) == []<>(pc[r] # "extractText")

SpecFair ==
    /\ Init
    /\ [][Next]_vars
    /\ \A r \in Reqs : WF_vars(HandlerStep(r)) /\ SecondDecodingSettles(r)

\* the requests that have been received
Received == {r \in Reqs : pc[r] # "none"}

\* a response that is a success carrying a result and no error
IsSuccess(resp) ==
    /\ resp.status = 200
    /\ Get(resp.body, <<"success">>) = Bool(TRUE)
    /\ Get(resp.body, <<"data">>).k = "object"
    /\ Get(resp.body, <<"error">>) = Undefined

\* a response that is a failure carrying an error message and no result
IsFailure(resp) ==
    /\ resp.status \in {400, 500}
    /\ Get(resp.body, <<"success">>) = Bool(FALSE)
    /\ Get(resp.body, <<"error">>).k = "string"
    /\ Get(resp.body, <<"error">>).v # <<>>
    /\ Get(resp.body, <<"data">>) = Undefined

\* a request has no response until it is answered, and then one that is
\* either a success or a failure
OneOutcome(r) ==
    /\ pc[r] # "done" => response[r] = NoResponse
    /\ pc[r] = "done" => IsSuccess(response[r]) # IsFailure(response[r])

\* a response is given once and never changed
AnsweredOnce(r) ==
    response'[r] # response[r] => (response[r] = NoResponse /\ pc'[r] = "done")

\* C23: when every decoding and every model call returns or fails, each
\* request received is eventually answered, with exactly one response,
\* which is either a success carrying a result or a failure carrying an
\* error message, never both and never neither.
C23_ExactlyOneOutcome ==
    /\ \A r \in Reqs : (r \in Received) ~> (pc[r] = "done")
    /\ [](\A r \in Reqs : OneOutcome(r))
    /\ [][\A r \in Reqs : AnsweredOnce(r)]_vars

\* a request answered with a result after its primary attempt failed
C23_Witness ==
    /\ pc["r1"] = "done"
    /\ Len(replies["r1"]) = 2
    /\ IsSuccess(response["r1"])
    /\ ~IsFailure(response["r1"])

(***************************************************************************)
(* Further claims about the validator (SpecValidate)                       *)
(***************************************************************************)
\* the reply is an object whose events field is absent or no sequence
LacksEventList ==
    parsedResult.k = "object" /\ Get(parsedResult, K_events).k # "array"

\* the reply o with its events field replaced by the sequence list
WithEvents(o, list) ==
    LET Other(p) == p[1] # K_events
    IN  Obj(SelectSeq(o.v, Other) \o << <<K_events, Arr(list)>> >>)

\* C24: for a reply that is an object whose events field is absent or is
\* no sequence the validator does not fail; its result has an empty event
\* list, and is the result for the same reply with an empty sequence of
\* events.
C24_NoEventListIsEmptyList ==
    (ValidatorDone /\ LacksEventList) =>
        /\ validated.ok
        /\ ResultEvents = <<>>
        /\ validated = validateAndCleanResult(WithEvents(parsedResult, <<>>), <<>>)

\* a reply without events field whose semester is kept as text
C24_Witness ==
    /\ vstage = "validated"
    /\ LacksEventList
    /\ Get(parsedResult, K_events) = Undefined
    /\ Get(parsedResult, K_semester) # Undefined
    /\ Get(validated.val, K_semester).k = "string"
    /\ ResultEvents = <<>>

\* the assignments of candidate positions to the events of the result that
\* keep the order
OrderKeeping ==
    { f \in [1..Len(ResultEvents) -> 1..Len(CandidateList)] :
        \A m \in 1..Len(ResultEvents) : \A n \in 1..Len(ResultEvents) :
            m < n => f[m] < f[n] }

\* C25: the result has no more events than the reply has candidates, and
\* its events can be assigned, keeping the order, to the titled and dated
\* candidates of the reply, each event having the title and the date of
\* its candidate.
C25_OrderPreserved ==
    (ValidatorDone /\ HasEventList /\ validated.ok) =>
        /\ Len(ResultEvents) <= Len(CandidateList)
        /\ \E f \in OrderKeeping :
              /\ {f[n] : n \in 1..Len(ResultEvents)} = KeptPositions
              /\ \A n \in 1..Len(ResultEvents) :
                    /\ Get(ResultEvents[n], K_title)
                          = Str(Trim(Get(CandidateList[f[n]], K_title).v))
                    /\ Get(ResultEvents[n], K_date)
                          = Get(CandidateList[f[n]], K_date)

\* two valid candidates of different titles
C25_Witness ==
    /\ vstage = "validated"
    /\ Len(CandidateList) = 2
    /\ KeptPositions = {1, 2}
    /\ Len(ResultEvents) = 2
    /\ Get(ResultEvents[1], K_title) # Get(ResultEvents[2], K_title)
    /\ Get(ResultEvents[1], K_title) = Str(Trim(Get(CandidateList[1], K_title).v))

(***************************************************************************)
(* The responses of the request handler (Spec)                             *)
(***************************************************************************)
\* the message of the error that processForAI throws for the buffer, <<>>
\* when it returns
ExtractorMessage(buffer) ==
    IF ~BeginsWithSignature(buffer.bytes) THEN E_InvalidFormat
    ELSE IF isScannedPDF(extractText(buffer)) THEN E_Scanned
    ELSE IF ~extractText(buffer).ok THEN extractText(buffer).error
    ELSE IF Len(cleanText(extractText(buffer).text)) < MinContentLength
         THEN E_LittleText
    ELSE <<>>

\* request r is answered with this status and this error message, marked
\* as no success
Refused(r, status, message) ==
    /\ response[r].status = status
    /\ response[r].body = ErrorBody(message)

\* the events of a result without their generated ids
EventsWithoutIds(result) ==
    LET NotId(p) == p[1] # K_id
        list == Get(result, K_events).v
    IN  [i \in 1..Len(list) |-> SelectSeq(list[i].v, NotId)]

\* a result is the other one up to the generated ids
SameResult(a, b) ==
    /\ EventsWithoutIds(a) = EventsWithoutIds(b)
    /\ \A f \in TextCourseFields \cup {K_year} : Get(a, f) = Get(b, f)

\* what extractEventsWithFallback returned for request r from its last
\* reply, with ids of the first draw
LastResult(r) ==
    LET reply == replies[r][Len(replies[r])]
        ids == [i \in 1..IdsNeededFor(reply) |-> generateEventId(1, 0)]
    IN  IF Len(replies[r]) = 1 THEN extractEvents(reply, ids)
        ELSE fallbackAttempt(reply, ids)

\* C30: the handler answers a missing file, then a type other than
\* application/pdf, then a size over 10 MB with status 400 before any
\* decoding; a failure of the extractor with status 400 and the
\* extractor's message; a missing credential and a failure of the model
\* layer with status 500; and a response says success = true only when
\* extractEventsWithFallback returned a result, which is its data.
C30_StatusByFailure ==
    \A r \in Reqs :
        /\ pc[r] # "done" => response[r] = NoResponse
        /\ pc[r] = "done" =>
              LET u == upload[r]
              IN  /\ ~u.present => Refused(r, 400, E_NoFile) /\ decodes[r] = 0
                  /\ (u.present /\ u.type # "application/pdf") =>
                        Refused(r, 400, E_OnlyPDF) /\ decodes[r] = 0
                  /\ (u.present /\ u.type = "application/pdf"
                                /\ u.size > MaxFileSize) =>
                        Refused(r, 400, E_TooLarge) /\ decodes[r] = 0
                  /\ (PassesUploadChecks(r) /\ ExtractorMessage(u.buffer) # <<>>) =>
                        /\ Refused(r, 400, ExtractorMessage(u.buffer))
                        /\ calls[r] = <<>>
                  /\ (PassesUploadChecks(r) /\ ExtractorMessage(u.buffer) = <<>>
                                            /\ ~KeyPresent) =>
                        Refused(r, 500, E_NotConfigured)
                  /\ BothAttemptsFailed(r) =>
                        /\ response[r].status = 500
                        /\ Get(response[r].body, <<"success">>) = Bool(FALSE)
                        /\ ErrorOf(r) \in ModelErrors
                  /\ Get(response[r].body, <<"success">>) = Bool(TRUE) =>
                        /\ response[r].status = 200
                        /\ replies[r] # <<>>
                        /\ LastResult(r).ok
                        /\ SameResult(Get(response[r].body, <<"data">>),
                                      LastResult(r).val)

\* a file of the wrong type that is also too large, refused for its type
C30_Witness ==
    /\ pc["r1"] = "done"
    /\ upload["r1"].present
    /\ upload["r1"].type # "application/pdf"
    /\ upload["r1"].size > MaxFileSize
    /\ Refused("r1", 400, E_OnlyPDF)
    /\ decodes["r1"] = 0

(***************************************************************************)
(* SpecCalendar: GoogleCalendarService.createEvents (part_000:100-117)     *)
(* creating a batch of events, one action for each stretch of code between *)
(* two awaits.                                                             *)
(***************************************************************************)
MaxBatch == 3        \* most events in a batch given to createEvents

\* a SyllabusEvent as the page holds it
Event(id, title, date, time) ==
    Obj(<< <<K_id, id>>,
           <<K_title, Str(title)>>,
           <<K_description, Str(<<>>)>>,
           <<K_date, Str(date)>>,
           <<K_time, time>>,
           <<K_type, Str(<<"o", "t", "h", "e", "r">>)>>,
           <<K_priority, Str(<<"m", "e", "d", "i", "u", "m">>)>> >>)

\* the index of the first ':' of t, 0 when there is none
RECURSIVE FirstColon(_, _)
FirstColon(t, i) ==
    IF i > Len(t) THEN 0 ELSE IF t[i] = ":" THEN i ELSE FirstColon(t, i + 1)

\* const [hours, minutes] = event.time.split(':').map(Number)  part_000:22
HoursAndMinutes(t) ==
    LET c == FirstColon(t, 1)
        rest == SubSeq(t, c + 1, Len(t))
        d == FirstColon(rest, 1)
    IN  IF c = 0 THEN [hours |-> StringToNumber(t), minutes |-> NaN]
        ELSE [hours |-> StringToNumber(SubSeq(t, 1, c - 1)),
              minutes |-> StringToNumber(IF d = 0 THEN rest
                                         ELSE SubSeq(rest, 1, d - 1))]

\* GoogleCalendarService.convertToGoogleEvent for an event whose date has
\* the form YYYY-MM-DD: toISOString throws a RangeError for an invalid
\* date, which new Date(event.date) is for a month or day out of range and
\* which setHours makes of the date when hours or minutes is NaN
convertToGoogleEvent(event) ==
    LET time == Get(event, K_time)
        allDay == ~Truthy(time)
        clock == HoursAndMinutes(StringOf(time))
    IN  IF ~DateParses(Get(event, K_date).v)
           \/ (~allDay /\ (clock.hours = NaN \/ clock.minutes = NaN))
        THEN [ok |-> FALSE, val |-> Undefined]
        ELSE [ok |-> TRUE,
              val |-> [summary |-> Get(event, K_title), allDay |-> allDay]]

\* the message of the error that createEvent throws, part_000:93
FailedToCreate(event) ==
    <<"Failed to create event: ">> \o StringOf(Get(event, K_title))

\* what calendar.events.insert can do: answer with an id, answer without
\* one, or reject
Rejected == [k |-> "rejected", v |-> <<>>]
InsertAnswers(n) == {Str(<<"g">> \o NatToChars(n)), Undefined, Rejected}

\* the loop of createEvents letting the error of createEvent through
pushFailedAborts(c, event, message) ==
    [c EXCEPT !.pc = "threw"]

\* the catch of createEvents, part_000:107-112
pushFailed(c, event, message) ==
    [c EXCEPT !.failed = Append(@, [event |-> event, error |-> message]),
              !.i = @ + 1,
              !.pc = "loop"]

CalendarEvents ==
    { Event(Str(<<"e", "1">>), <<"A">>, D_Sep15, Undefined),
      Event(Str(<<"e", "2">>), <<"B">>, D_Sep16, Str(<<"0", "9", ":", "3", "0">>)),
      Event(Str(<<"e", "3">>), <<"C">>, D_Month13, Undefined),
      Event(Str(<<"e", "4">>), <<"D">>, D_Sep15, Str(<<"n", "o", "o", "n">>)) }

OthersIdle ==
    /\ CleanIdle
    /\ ValidateIdle
    /\ RequestsIdle
    /\ now = 1

InitCalendar ==
    /\ OthersIdle
    /\ PageIdle /\ EditorIdle /\ UploadIdle
    /\ \E events \in ListsUpTo(CalendarEvents, MaxBatch) :
          calendar = [pc |-> "loop", events |-> events, i |-> 1,
                      success |-> <<>>, failed |-> <<>>,
                      inserted |-> <<>>, answers |-> <<>>]

\* part_000:105-106, :81-88: the next event converted and the insert asked
\* for, or the conversion's error caught twice (:91-94, :107-112)
CreateEvent ==
    /\ calendar.pc = "loop"
    /\ calendar.i <= Len(calendar.events)
    /\ LET event == calendar.events[calendar.i]
           googleEvent == convertToGoogleEvent(event)
       IN  calendar' =
              IF googleEvent.ok
              THEN [calendar EXCEPT !.pc = "insert",
                                    !.inserted = Append(@, googleEvent.val)]
              ELSE pushFailed(calendar, event, FailedToCreate(event))
    /\ UNCHANGED <<cleanVars, validateVars, now, env, requestVars, page, editor,
                   fileUpload>>

\* part_000:85-94, :106-112: the insert settles; the id is pushed, or the
\* error is caught, replaced and caught again
InsertSettles ==
    /\ calendar.pc = "insert"
    /\ \E answer \in InsertAnswers(Len(calendar.answers) + 1) :
          LET event == calendar.events[calendar.i]
              answered == [calendar EXCEPT !.answers = Append(@, answer)]
          IN  calendar' =
                 IF answer = Rejected
                 THEN pushFailed(answered, event, FailedToCreate(event))
                 ELSE [answered EXCEPT
                         !.success = Append(@, IF Truthy(answer) THEN answer
                                               ELSE Str(<<>>)),
                         !.i = @ + 1,
                         !.pc = "loop"]
    /\ UNCHANGED <<cleanVars, validateVars, now, env, requestVars, page, editor,
                   fileUpload>>

\* return { success, failed }                              part_000:116
ReturnLists ==
    /\ calendar.pc = "loop"
    /\ calendar.i > Len(calendar.events)
    /\ calendar' = [calendar EXCEPT !.pc = "returned"]
    /\ UNCHANGED <<cleanVars, validateVars, now, env, requestVars, page, editor,
                   fileUpload>>

NextCalendar == CreateEvent \/ InsertSettles \/ ReturnLists

SpecCalendar == InitCalendar /\ [][NextCalendar]_vars

(***************************************************************************)
(* Claims about createEvents (SpecCalendar)                                *)
(***************************************************************************)
\* the number of events that createEvents is through with
Processed == calendar.i - 1

\* the positions up to n of the events that convertToGoogleEvent converts
Converting(n) == {j \in 1..n : convertToGoogleEvent(calendar.events[j]).ok}

\* the event at position j, one that createEvents is through with, could
\* not be created: it does not convert, or its insert was rejected
NotCreated(j) ==
    \/ j \notin Converting(j)
    \/ calendar.answers[Cardinality(Converting(j))] = Rejected

\* the positions up to n, in order, of the events that could not be created
RECURSIVE PositionsNotCreated(_)
PositionsNotCreated(n) ==
    IF n = 0 THEN <<>>
    ELSE IF NotCreated(n) THEN Append(PositionsNotCreated(n - 1), n)
         ELSE PositionsNotCreated(n - 1)

\* the positions up to n, in order, of the events that convert
RECURSIVE PositionsConverting(_)
PositionsConverting(n) ==
    IF n = 0 THEN <<>>
    ELSE IF n \in Converting(n) THEN Append(PositionsConverting(n - 1), n)
         ELSE PositionsConverting(n - 1)

\* the ids that the inserts answered so far have created, '' for an
\* answer without id
CreatedIds ==
    LET Created(a) == a # Rejected
        created == SelectSeq(calendar.answers, Created)
    IN  [k \in 1..Len(created) |->
            IF Truthy(created[k]) THEN created[k] ELSE Str(<<>>)]

\* C26: createEvents never throws; the events it is through with are
\* split between success and failed, the failed list holding, in input
\* order and with a message, exactly the events that could not be
\* created and the success list, in order, the ids of the others; the
\* inserts are asked for one at a time in input order; and it returns
\* only when it is through with every event.
C26_EveryEventInOneList ==
    LET upto == IF calendar.pc = "insert" THEN calendar.i ELSE Processed
        asked == PositionsConverting(upto)
        lost == PositionsNotCreated(Processed)
    IN  /\ calendar.pc # "threw"
        /\ Len(calendar.success) + Len(calendar.failed) = Processed
        /\ calendar.pc = "returned" => Processed = Len(calendar.events)
        /\ calendar.success = CreatedIds
        /\ calendar.failed =
              [k \in 1..Len(lost) |->
                  [event |-> calendar.events[lost[k]],
                   error |-> FailedToCreate(calendar.events[lost[k]])]]
        /\ \A k \in 1..Len(calendar.failed) : calendar.failed[k].error # <<>>
        /\ Len(calendar.inserted) = Len(asked)
        /\ \A k \in 1..Len(asked) :
              calendar.inserted[k].summary = Get(calendar.events[asked[k]], K_title)
        /\ Len(calendar.answers) =
              Len(calendar.inserted) - (IF calendar.pc = "insert" THEN 1 ELSE 0)

\* a batch of three whose first event does not convert and whose last
\* insert is rejected, the one between them created
C26_Witness ==
    /\ calendar.pc = "returned"
    /\ Len(calendar.events) = 3
    /\ Len(calendar.success) = 1
    /\ Len(calendar.failed) = 2
    /\ calendar.failed[1].event = calendar.events[1]
    /\ calendar.failed[2].event = calendar.events[3]
    /\ calendar.answers = <<Str(<<"g", "1">>), Rejected>>

(***************************************************************************)
(* SpecPage: the event list of the Home component (page.tsx), one action   *)
(* for each handler.                                                       *)
(***************************************************************************)
MaxPageEvents == 3   \* most events on the page

\* the object has a property of this key
HasKey(o, key) == \E i \in 1..Len(o.v) : o.v[i][1] = key

\* { ...a, ...b }
Spread(a, b) ==
    LET NewInB(p) == ~HasKey(a, p[1])
    IN  Obj([i \in 1..Len(a.v) |->
                IF HasKey(b, a.v[i][1]) THEN <<a.v[i][1], Get(b, a.v[i][1])>>
                ELSE a.v[i]]
            \o SelectSeq(b.v, NewInB))

\* the value of the editor's form, an EventEditFormData
FormData(title, date, time) ==
    Obj(<< <<K_title, Str(title)>>,
           <<K_description, Str(<<>>)>>,
           <<K_date, Str(date)>>,
           <<K_time, Str(time)>>,
           <<K_type, Str(<<"o", "t", "h", "e", "r">>)>>,
           <<K_priority, Str(<<"m", "e", "d", "i", "u", "m">>)>>,
           <<K_location, Str(<<>>)>> >>)

FormKeys == {K_title, K_description, K_date, K_time, K_type, K_priority, K_location}

\* the map of page.tsx:41-45 replacing every event
updatedEventsEverywhere(events, editingEvent, eventData) ==
    [i \in 1..Len(events) |-> Spread(events[i], eventData)]

\* events.map(event => event.id === editingEvent.id
\*                        ? { ...event, ...eventData } : event)
updatedEvents(events, editingEvent, eventData) ==
    [i \in 1..Len(events) |->
        IF Get(events[i], K_id) = Get(editingEvent, K_id)
        THEN Spread(events[i], eventData)
        ELSE events[i]]

\* { id: `event-${Date.now()}-${Math.random()...}`, ...eventData }
newEvent(time, random, eventData) ==
    Spread(Obj(<< <<K_id, generateEventId(time, random)>> >>), eventData)

\* events.filter(event => event.id !== eventId)
WithoutId(events, eventId) ==
    LET Other(event) == Get(event, K_id) # eventId
    IN  SelectSeq(events, Other)

\* the events of the results that the upload hands to the page: ids as
\* the validator generates them, two events of one id among them
PageEvents ==
    { Event(generateEventId(1, 0), <<"A">>, D_Sep15, Undefined),
      Event(generateEventId(1, 1), <<"B">>, D_Sep16,
            Str(<<"0", "9", ":", "3", "0">>)),
      Event(generateEventId(1, 0), <<"C">>, D_Sep16, Undefined) }

PageForms ==
    { FormData(<<"X">>, D_Sep16, <<>>),
      FormData(<<"Y">>, D_Sep15, <<"1", "0", ":", "0", "0">>) }

NoCall == [op |-> "none"]

InitPage ==
    /\ OthersIdle
    /\ CalendarIdle /\ EditorIdle /\ UploadIdle
    /\ page = [pc |-> "mounted", processedSyllabus |-> Null, events |-> <<>>,
               isEditorOpen |-> FALSE, editingEvent |-> Undefined,
               last |-> NoCall]

\* the handler called last, with its argument and the state it found
Called(op, arg) ==
    [op |-> op, arg |-> arg, events |-> page.events,
     editingEvent |-> page.editingEvent]

\* page.tsx:18-26, called by the upload component, which is there while
\* no syllabus is shown (page.tsx:165-167)
handleFileProcessed ==
    /\ page.pc = "mounted"
    /\ ~Truthy(page.processedSyllabus)
    /\ \E events \in ListsUpTo(PageEvents, MaxPageEvents - 1) :
          page' = [page EXCEPT !.processedSyllabus = EventsOnly(events),
                               !.events = events,
                               !.last = Called("handleFileProcessed", events)]
    /\ UNCHANGED <<cleanVars, validateVars, now, env, requestVars, calendar, editor,
                   fileUpload>>

\* page.tsx:33-36, called for the event selected in the calendar view,
\* which is there while a syllabus is shown (page.tsx:205-248)
handleEventEdit ==
    /\ page.pc = "mounted"
    /\ Truthy(page.processedSyllabus)
    /\ ~page.isEditorOpen
    /\ \E i \in 1..Len(page.events) :
          page' = [page EXCEPT !.editingEvent = page.events[i],
                               !.isEditorOpen = TRUE,
                               !.last = Called("handleEventEdit", page.events[i])]
    /\ UNCHANGED <<cleanVars, validateVars, now, env, requestVars, calendar, editor,
                   fileUpload>>

\* page.tsx:69-72
handleCreateNewEvent ==
    /\ page.pc = "mounted"
    /\ Truthy(page.processedSyllabus)
    /\ ~page.isEditorOpen
    /\ page' = [page EXCEPT !.editingEvent = Undefined,
                            !.isEditorOpen = TRUE,
                            !.last = Called("handleCreateNewEvent", Undefined)]
    /\ UNCHANGED <<cleanVars, validateVars, now, env, requestVars, calendar, editor,
                   fileUpload>>

\* page.tsx:38-60, called by the editor, which is there while it is open
handleEventSave ==
    /\ page.pc = "mounted"
    /\ page.isEditorOpen
    /\ Len(page.events) < MaxPageEvents \/ Truthy(page.editingEvent)
    /\ \E eventData \in PageForms : \E random \in 0..(MaxRnd - 1) :
          page' = [page EXCEPT
                     !.events =
                        IF Truthy(page.editingEvent)
                        THEN updatedEvents(page.events, page.editingEvent, eventData)
                        ELSE Append(page.events, newEvent(now, random, eventData)),
                     !.isEditorOpen = FALSE,
                     !.editingEvent = Undefined,
                     !.last = Called("handleEventSave", eventData)]
    /\ UNCHANGED <<cleanVars, validateVars, now, env, requestVars, calendar, editor,
                   fileUpload>>

\* page.tsx:62-67, called with the id of the event selected in the
\* calendar view
handleEventDelete ==
    /\ page.pc = "mounted"
    /\ Truthy(page.processedSyllabus)
    /\ ~page.isEditorOpen
    /\ \E i \in 1..Len(page.events) :
          LET eventId == Get(page.events[i], K_id)
          IN  page' = [page EXCEPT !.events = WithoutId(page.events, eventId),
                                   !.last = Called("handleEventDelete", eventId)]
    /\ UNCHANGED <<cleanVars, validateVars, now, env, requestVars, calendar, editor,
                   fileUpload>>

\* page.tsx:271-274
onCancel ==
    /\ page.pc = "mounted"
    /\ page.isEditorOpen
    /\ page' = [page EXCEPT !.isEditorOpen = FALSE,
                            !.editingEvent = Undefined,
                            !.last = Called("onCancel", Undefined)]
    /\ UNCHANGED <<cleanVars, validateVars, now, env, requestVars, calendar, editor,
                   fileUpload>>

\* page.tsx:251-260: 'Upload a different syllabus'
uploadDifferentSyllabus ==
    /\ page.pc = "mounted"
    /\ Truthy(page.processedSyllabus)
    /\ ~page.isEditorOpen
    /\ page' = [page EXCEPT !.processedSyllabus = Null,
                            !.events = <<>>,
                            !.last = Called("uploadDifferentSyllabus", Undefined)]
    /\ UNCHANGED <<cleanVars, validateVars, now, env, requestVars, calendar, editor,
                   fileUpload>>

NextPage ==
    \/ handleFileProcessed
    \/ uploadDifferentSyllabus
    \/ handleEventEdit
    \/ handleCreateNewEvent
    \/ handleEventSave
    \/ handleEventDelete
    \/ onCancel

SpecPage == InitPage /\ [][NextPage]_vars

(***************************************************************************)
(* Claims about the event list of the page (SpecPage)                      *)
(***************************************************************************)
\* the last handler called was handleEventSave with an event being edited
SavedEdit == page.last.op = "handleEventSave" /\ Truthy(page.last.editingEvent)

\* the last handler called was handleEventSave with no event being edited
SavedNew == page.last.op = "handleEventSave" /\ ~Truthy(page.last.editingEvent)

Deleted == page.last.op = "handleEventDelete"

\* the event has the values of the form in the form's fields
CarriesForm(event, eventData) ==
    \A key \in FormKeys : Get(event, key) = Get(eventData, key)

\* the id is one that the page generates
IsGeneratedId(id) ==
    /\ id.k = "string"
    /\ Len(id.v) >= 1
    /\ id.v[1] = "event-"

\* C27: a save while an event is edited changes the events of the edited
\* id and no other, keeps their id and the length and order of the list;
\* a save with no event edited appends one event with a generated id and
\* the form's values after the unchanged list; a delete leaves, in
\* order and unchanged, exactly the events of another id.
C27_SaveAndDeleteFrame ==
    LET before == page.last.events
        after == page.events
    IN  /\ SavedEdit =>
              LET id == Get(page.last.editingEvent, K_id)
              IN  /\ Len(after) = Len(before)
                  /\ \A i \in 1..Len(before) :
                        /\ Get(after[i], K_id) = Get(before[i], K_id)
                        /\ Get(before[i], K_id) # id => after[i] = before[i]
                        /\ Get(before[i], K_id) = id =>
                              CarriesForm(after[i], page.last.arg)
        /\ SavedNew =>
              /\ Len(after) = Len(before) + 1
              /\ SubSeq(after, 1, Len(before)) = before
              /\ IsGeneratedId(Get(after[Len(after)], K_id))
              /\ CarriesForm(after[Len(after)], page.last.arg)
        /\ Deleted =>
              /\ \A i \in 1..Len(after) : Get(after[i], K_id) # page.last.arg
              /\ \E kept \in SUBSET (1..Len(before)) :
                    /\ \A i \in 1..Len(before) :
                          i \in kept <=> Get(before[i], K_id) # page.last.arg
                    /\ Len(after) = Cardinality(kept)
                    /\ \A n \in 1..Len(after) :
                          \E i \in kept :
                             /\ Cardinality({j \in kept : j <= i}) = n
                             /\ after[n] = before[i]

\* the second of two events of different ids edited and saved, the first
\* left as it was
C27_Witness ==
    /\ SavedEdit
    /\ Len(page.last.events) = 2
    /\ page.events[1] = page.last.events[1]
    /\ page.events[2] # page.last.events[2]
    /\ Get(page.events[2], K_title) = Str(<<"X">>)

(***************************************************************************)
(* SpecEditor: the form of the EventEditor component (EventEditor.tsx),    *)
(* one action for each handler and one for the settling of onSave.         *)
(***************************************************************************)
\* /^([01]?[0-9]|2[0-3]):[0-5][0-9]$/.test(t)            EventEditor.tsx:84-85
MatchesTimeRegex(t) ==
    /\ Len(t) \in {4, 5}
    /\ t[Len(t) - 2] = ":"
    /\ t[Len(t) - 1] \in {"0", "1", "2", "3", "4", "5"}
    /\ IsDigit(t[Len(t)])
    /\ IF Len(t) = 4 THEN IsDigit(t[1])
       ELSE \/ t[1] \in {"0", "1"} /\ IsDigit(t[2])
            \/ t[1] = "2" /\ t[2] \in {"0", "1", "2", "3"}

FormFields == {K_title, K_date, K_time}

NoErrors == [field \in FormFields |-> <<>>]

\* newErrors of validateForm, EventEditor.tsx:67-94: the message for each
\* field, <<>> for a field without one
validateForm(formData) ==
    LET title == Get(formData, K_title).v
        date == Get(formData, K_date).v
        time == Get(formData, K_time).v
    IN  [field \in FormFields |->
            CASE field = K_title ->
                    IF Trim(title) = <<>> THEN <<"Title is required">> ELSE <<>>
              [] field = K_date ->
                    IF date = <<>> THEN <<"Date is required">>
                    ELSE IF ~MatchesDateRegex(date) THEN <<"Invalid date format">>
                    ELSE <<>>
              [] field = K_time ->
                    IF time # <<>> /\ ~MatchesTimeRegex(time)
                    THEN <<"Invalid time format (use HH:MM)">>
                    ELSE <<>>]

\* what the user can type into the three fields
Titles == {<<>>, <<" ">>, <<"A">>}
Dates == {<<>>, D_Sep15, D_Month13, <<"2", "0", "2", "4", "-", "9", "-", "1", "5">>,
          D_Sep15 \o <<"\n">>}
Times == {<<>>, <<" ">>,
          <<"0", "9", ":", "3", "0">>, <<"9", ":", "3", "0">>,
          <<"2", "3", ":", "5", "9">>, <<"2", "4", ":", "0", "0">>,
          <<"0", "9", ":", "6", "0">>, <<"9", ":", "3">>, <<"0", "9", "3", "0">>}
Typed(name) ==
    CASE name = K_title -> Titles [] name = K_date -> Dates [] name = K_time -> Times

\* { ...prev, [name]: value }
WithField(formData, name, value) ==
    Spread(formData, Obj(<< <<name, Str(value)>> >>))

\* the form of a new event, EventEditor.tsx:42-51, on 15 September
InitEditor ==
    /\ OthersIdle
    /\ CalendarIdle /\ PageIdle /\ UploadIdle
    /\ editor = [pc |-> "form",
                 formData |-> FormData(<<>>, D_Sep15, <<>>),
                 errors |-> NoErrors,
                 isSubmitting |-> FALSE,
                 last |-> NoCall]

\* EventEditor.tsx:55-65
handleInputChange ==
    /\ editor.pc = "form"
    /\ \E name \in FormFields : \E value \in Typed(name) :
          editor' = [editor EXCEPT
                       !.formData = WithField(@, name, value),
                       !.errors = [@ EXCEPT ![name] = <<>>],
                       !.last = [op |-> "handleInputChange"]]
    /\ UNCHANGED <<cleanVars, validateVars, now, env, requestVars, calendar, page,
                   fileUpload>>

\* the finally of handleSubmit, EventEditor.tsx:109-111
Settled(e) == [e EXCEPT !.pc = "form", !.isSubmitting = FALSE]

\* EventEditor.tsx:96-106: the form validated and onSave called with it
handleSubmit ==
    /\ editor.pc = "form"
    /\ LET newErrors == validateForm(editor.formData)
       IN  editor' =
              IF newErrors # NoErrors
              THEN [editor EXCEPT
                      !.errors = newErrors,
                      !.last = [op |-> "handleSubmit", formData |-> editor.formData,
                                onSave |-> <<>>, threw |-> FALSE]]
              ELSE [editor EXCEPT
                      !.errors = newErrors,
                      !.isSubmitting = TRUE,
                      !.pc = "onSave",
                      !.last = [op |-> "handleSubmit", formData |-> editor.formData,
                                onSave |-> <<editor.formData>>, threw |-> FALSE]]
    /\ UNCHANGED <<cleanVars, validateVars, now, env, requestVars, calendar, page,
                   fileUpload>>

\* EventEditor.tsx:105-111: onSave returns or throws
OnSaveSettles ==
    /\ editor.pc = "onSave"
    /\ \E threw \in BOOLEAN :
          editor' = Settled([editor EXCEPT !.last.threw = threw])
    /\ UNCHANGED <<cleanVars, validateVars, now, env, requestVars, calendar, page,
                   fileUpload>>

NextEditor == handleInputChange \/ handleSubmit \/ OnSaveSettles

SpecEditor == InitEditor /\ [][NextEditor]_vars

(***************************************************************************)
(* Claims about the event editor (SpecEditor)                              *)
(***************************************************************************)
Submitted == editor.last.op = "handleSubmit"

\* the form that may be saved: a title that is not blank, a date of the
\* form YYYY-MM-DD, and a time that is empty or a clock time HH:MM
MayBeSaved(formData) ==
    /\ Trim(Get(formData, K_title).v) # <<>>
    /\ Get(formData, K_date).v # <<>>
    /\ MatchesDateRegex(Get(formData, K_date).v)
    /\ \/ Get(formData, K_time).v = <<>>
       \/ IsClockTime(Get(formData, K_time).v)

\* the fields of the form that keep it from being saved
Offending(formData) ==
    {field \in FormFields :
        ~MayBeSaved(WithField(FormData(<<"A">>, D_Sep15, <<>>), field,
                              Get(formData, field).v))}

\* C28: after a submit, onSave has been called, with the form, exactly
\* when the title is not blank, the date is not empty and has the form
\* YYYY-MM-DD and the time is empty or a clock time HH:MM; when it has
\* not been called an error is recorded for each offending field; and
\* isSubmitting is false whenever no call of onSave is pending.
C28_SavesOnlyValidForms ==
    /\ Submitted =>
          /\ editor.last.onSave # <<>> <=> MayBeSaved(editor.last.formData)
          /\ editor.last.onSave # <<>> => editor.last.onSave[1] = editor.last.formData
          /\ editor.last.onSave = <<>> =>
                \A field \in Offending(editor.last.formData) :
                    editor.errors[field] # <<>>
    /\ editor.pc = "form" => ~editor.isSubmitting

(***************************************************************************)
(* SpecUpload: the FileUpload component (FileUpload.tsx) selecting files   *)
(* and posting them to the route, one action for each stretch of code      *)
(* between two awaits.                                                     *)
(***************************************************************************)
E_PdfOnly == <<"Please upload a PDF file only.">>
E_ClientTooLarge == <<"File size must be less than 10MB.">>
E_FailedToProcess == <<"Failed to process syllabus">>
E_FailedToFetch == <<"Failed to fetch">>
E_NotJSON == <<"Unexpected token < in JSON at position 0">>

ClientFile(name, type, size) == [name |-> name, type |-> type, size |-> size]

\* the files the user can select or drop
ClientFiles ==
    { ClientFile(<<"a.pdf">>, "application/pdf", 2048),
      ClientFile(<<"b.pdf">>, "application/pdf", MaxFileSize),
      ClientFile(<<"c.pdf">>, "application/pdf", MaxFileSize + 1),
      ClientFile(<<"d.txt">>, "text/plain", 2048),
      ClientFile(<<"noname">>, "", 0),
      ClientFile(<<"e.zip">>, "application/zip", MaxFileSize + 1) }

FetchRejects == [rejects |-> TRUE, ok |-> FALSE, body |-> <<>>]
FetchResponse(ok, responseBody) == [rejects |-> FALSE, ok |-> ok, body |-> responseBody]

\* how the fetch of FileUpload.tsx:81 can settle: the network fails, the
\* route answers as route.ts does, or something in front of the route
\* answers with an error page or an error object of its own
FetchOutcomes ==
    { FetchRejects,
      FetchResponse(TRUE, JSONstringify(SuccessBody(EventsOnly(<<>>)))),
      FetchResponse(TRUE, JSONstringify(SuccessBody(
                              EventsOnly(<<Event(generateEventId(1, 0), <<"A">>,
                                                 D_Sep15, Undefined)>>)))),
      FetchResponse(FALSE, JSONstringify(ErrorBody(E_Scanned))),
      FetchResponse(FALSE, JSONstringify(ErrorBody(E_LittleText))),
      FetchResponse(FALSE, JSONstringify(ErrorBody(E_NotConfigured))),
      FetchResponse(FALSE, JSONstringify(ErrorBody(E_AIFailed))),
      FetchResponse(FALSE, JSONstringify(Obj(<<>>))),
      FetchResponse(FALSE, <<"<", "h", "t", "m", "l", ">">>),
      FetchResponse(TRUE, <<"<", "h", "t", "m", "l", ">">>) }

\* a call of handleFileSelection: the file, the calls of setUploadStatus,
\* onError and onFileProcessed it has made, the requests it has sent and
\* how its fetch settled
NewRun(file) ==
    [file |-> file, statuses |-> <<>>, onError |-> <<>>, onFileProcessed |-> <<>>,
     sent |-> 0, settled |-> <<>>]
NoRun == NewRun(ClientFile(<<>>, "", 0))

InitUpload ==
    /\ OthersIdle
    /\ CalendarIdle /\ PageIdle /\ EditorIdle
    /\ fileUpload = [pc |-> "idle", isDragging |-> FALSE, isProcessing |-> FALSE,
                     uploadStatus |-> "idle", fileName |-> <<>>, run |-> NoRun,
                     last |-> "none"]

\* setUploadStatus(status)
setUploadStatus(f, status) ==
    [f EXCEPT !.uploadStatus = status, !.run.statuses = Append(@, status)]

\* onError(message); setUploadStatus('error')
Refuse(f, message) ==
    setUploadStatus([f EXCEPT !.run.onError = Append(@, message)], "error")

\* the handler returning with isProcessing as it is
finallyNothing(f) == [f EXCEPT !.pc = "idle"]

\* finally { setIsProcessing(false) }            FileUpload.tsx:100-102
finally(f) == [f EXCEPT !.pc = "idle", !.isProcessing = FALSE]

\* handleFileSelection up to its fetch, FileUpload.tsx:53-84: the file
\* checked and posted
handleFileSelection(f, file) ==
    LET started == [f EXCEPT !.run = NewRun(file), !.last = "handleFileSelection"]
    IN  IF file.type # "application/pdf" THEN Refuse(started, E_PdfOnly)
        ELSE IF file.size > MaxFileSize THEN Refuse(started, E_ClientTooLarge)
        ELSE setUploadStatus(
                 setUploadStatus(
                     [started EXCEPT !.fileName = file.name,
                                     !.isProcessing = TRUE,
                                     !.run.sent = @ + 1,
                                     !.pc = "fetch"],
                     "uploading"),
                 "processing")

\* the drop zone and the input take no event while isProcessing
\* (FileUpload.tsx:147, :163)
TakesEvents == fileUpload.pc = "idle" /\ ~fileUpload.isProcessing

\* FileUpload.tsx:18-22
handleDragEnter ==
    /\ TakesEvents
    /\ fileUpload' = [fileUpload EXCEPT !.isDragging = TRUE]
    /\ UNCHANGED <<cleanVars, validateVars, now, env, requestVars, calendar, page,
                   editor>>

\* FileUpload.tsx:24-28
handleDragLeave ==
    /\ TakesEvents
    /\ fileUpload' = [fileUpload EXCEPT !.isDragging = FALSE]
    /\ UNCHANGED <<cleanVars, validateVars, now, env, requestVars, calendar, page,
                   editor>>

\* FileUpload.tsx:35-44: something dropped, a file or none
handleDrop ==
    /\ TakesEvents
    /\ \/ fileUpload' = [fileUpload EXCEPT !.isDragging = FALSE]
       \/ \E file \in ClientFiles :
             fileUpload' =
                handleFileSelection([fileUpload EXCEPT !.isDragging = FALSE], file)
    /\ UNCHANGED <<cleanVars, validateVars, now, env, requestVars, calendar, page,
                   editor>>

\* FileUpload.tsx:46-51: a file chosen in the dialog
handleFileInputChange ==
    /\ TakesEvents
    /\ \E file \in ClientFiles :
          fileUpload' = handleFileSelection(fileUpload, file)
    /\ UNCHANGED <<cleanVars, validateVars, now, env, requestVars, calendar, page,
                   editor>>

\* FileUpload.tsx:81-102: the fetch settles and the body is read
FetchSettles ==
    /\ fileUpload.pc = "fetch"
    /\ \E outcome \in FetchOutcomes :
          LET settled == [fileUpload EXCEPT !.run.settled = <<outcome>>]
              result == JSONparse(outcome.body)
              message ==
                  IF outcome.rejects THEN E_FailedToFetch
                  ELSE IF ~result.ok THEN E_NotJSON
                  ELSE IF Truthy(Get(result.val, <<"error">>))
                       THEN StringOf(Get(result.val, <<"error">>))
                  ELSE E_FailedToProcess
          IN  fileUpload' =
                 IF ~outcome.rejects /\ result.ok /\ outcome.ok
                 THEN finally([setUploadStatus(settled, "success") EXCEPT
                                 !.run.onFileProcessed =
                                     Append(@, Get(result.val, <<"data">>))])
                 ELSE finally(Refuse(settled, message))
    /\ UNCHANGED <<cleanVars, validateVars, now, env, requestVars, calendar, page,
                   editor>>

\* FileUpload.tsx:105-111, called from the buttons shown for the statuses
\* 'success' and 'error' (FileUpload.tsx:183-190, :207-218)
resetUpload ==
    /\ fileUpload.uploadStatus \in {"success", "error"}
    /\ fileUpload' = [fileUpload EXCEPT !.uploadStatus = "idle",
                                        !.fileName = <<>>,
                                        !.last = "resetUpload"]
    /\ UNCHANGED <<cleanVars, validateVars, now, env, requestVars, calendar, page,
                   editor>>

NextUpload ==
    \/ handleDragEnter
    \/ handleDragLeave
    \/ handleDrop
    \/ handleFileInputChange
    \/ FetchSettles
    \/ resetUpload

SpecUpload == InitUpload /\ [][NextUpload]_vars

(***************************************************************************)
(* Claims about the file upload (SpecUpload)                               *)
(***************************************************************************)
\* the file is a PDF of at most 10 MB
Acceptable(file) == file.type = "application/pdf" /\ file.size <= 10 * 1024 * 1024

\* the fetch of the run brought an OK response whose body could be read
BroughtOK(run) ==
    /\ run.settled # <<>>
    /\ ~run.settled[1].rejects
    /\ run.settled[1].ok
    /\ JSONparse(run.settled[1].body).ok

\* C29: a file that is no PDF or is larger than 10 MB is refused with
\* status 'error' and one call of onError and without a request; for
\* another file one request is sent and the status goes uploading,
\* processing and then success or error; onFileProcessed is called only
\* after an OK response and onError exactly after a response that is
\* not OK or an error thrown; isProcessing is false whenever
\* handleFileSelection is not running.
C29_UploadStatusSequence ==
    LET f == fileUpload
        run == f.run
        finished == f.pc = "idle" /\ run # NoRun
    IN  /\ f.pc = "idle" => ~f.isProcessing
        /\ f.pc = "fetch" =>
              /\ f.isProcessing
              /\ Acceptable(run.file)
              /\ run.statuses = <<"uploading", "processing">>
              /\ run.onError = <<>> /\ run.onFileProcessed = <<>>
        /\ (finished /\ ~Acceptable(run.file)) =>
              /\ run.statuses = <<"error">>
              /\ Len(run.onError) = 1
              /\ run.onFileProcessed = <<>>
              /\ run.sent = 0
        /\ (finished /\ Acceptable(run.file)) =>
              /\ run.sent = 1
              /\ run.statuses \in {<<"uploading", "processing", "success">>,
                                   <<"uploading", "processing", "error">>}
              /\ run.statuses[3] = "success" <=> BroughtOK(run)
              /\ run.onFileProcessed # <<>> <=> BroughtOK(run)
              /\ run.onError # <<>> <=> ~BroughtOK(run)
              /\ Len(run.onError) + Len(run.onFileProcessed) = 1
        /\ (finished /\ f.last = "handleFileSelection") =>
              f.uploadStatus = run.statuses[Len(run.statuses)]

\* an accepted file whose request was answered with an error of the
\* route: status error, onError called with the route's message
C29_Witness ==
    /\ fileUpload.pc = "idle"
    /\ fileUpload.last = "handleFileSelection"
    /\ Acceptable(fileUpload.run.file)
    /\ fileUpload.run.file.size = MaxFileSize
    /\ fileUpload.run.statuses = <<"uploading", "processing", "error">>
    /\ fileUpload.run.onError = <<E_Scanned>>
    /\ ~fileUpload.isProcessing

====
